---- MODULE Spec2Model ----
(***************************************************************************)
(* Slide layout and interaction engine of TikTok-Slides-Maker.             *)
(*                                                                         *)
(* Three specifications share the variables below:                         *)
(*   SpecWrap   - the word-wrap of the layout pass, applied to bounded     *)
(*                contents and wrap budgets;                               *)
(*   Spec       - the pointer-gesture controller of SlidePreview (drag,    *)
(*                resize, snap, containment) over a slide of text layers;  *)
(*   SpecExport - the full-deck export loop and the export renderers'      *)
(*                background-image step.                                   *)
(*                                                                         *)
(* Arithmetic.  The source computes in IEEE doubles; the model computes in *)
(* exact integers.  A percentage p is held as p * Unit, a pixel length on  *)
(* a surface of width w as a multiple of w/(100*Unit), so that             *)
(* (pct/100)*width and (px/width)*100 are a multiplication and a division  *)
(* by the surface's pixels-per-unit.  Unit carries the factors that keep   *)
(* every division of the modelled inputs exact.                            *)
(***************************************************************************)
EXTENDS Integers, Sequences, FiniteSets, TLC

VARIABLES
    \* --- SlidePreview: model and controller state ---
    slide,            \* the slide prop: [layers, constrainToSlide]
    slideRef,         \* slideRef.current, refreshed by an effect
    dims,             \* dims state / dimsRef.current: [width, height]
    zoom,             \* zoom prop: containerRect = dims * zoom
    interactionRef,   \* interactionRef.current, or NoInteraction
    activeOperation,  \* 'none' | 'drag' | 'resize'
    activeLayerId,    \* string | null
    showSnapX,
    showSnapY,
    listening,        \* window pointermove/pointerup listeners attached
    ev,               \* last event handled and whether it emitted a layer list
    gestures,         \* number of pointer-downs handled so far
    \* --- layout word wrap ---
    wrapIn,           \* [content, widthPercent] handed to the layout pass
    wrapOut,          \* its result, or NoLayout before the pass
    \* --- deck export ---
    deck,             \* sequence of slides: whether the background loads
    exportSlides,     \* the slides array each handleDownload call closed over
    exportPc,         \* position of each handleDownload call
    exportIdx,        \* its loop variable i
    zip,              \* the archive entries it has written so far
    imgStatus,        \* the Image element its generateSlideImage is waiting on
    serverOut,        \* result of renderSlideOnServer for each slide
    \* --- keyboard shortcuts ---
    keys,             \* number of key presses handled so far
    \* --- the three renderers' text geometry ---
    renderIn,         \* [layer, settings, width, height] handed to the renderers
    renderOut,        \* the geometry each renderer computed, or NoGeometry
    \* --- tool server ---
    heap,             \* the slide objects of the server process, by reference
    slides,           \* the server's slides array: a sequence of references
    nextId,           \* next value of generateId / next object reference
    resp,             \* the last response of POST /mcp/execute
    calls,            \* number of requests handled so far
    renders,          \* render_slide calls awaiting their background image
    \* --- undo / redo history ---
    history,          \* the undo stack: decks, oldest first
    future,           \* the redo stack: decks, next first
    lastSavedStateRef,    \* lastSavedStateRef.current
    historyDebounceTimer, \* the pending debounced commit, or NoTimer
    undone            \* the deck and redo stack before the last undo

vars == << slide, slideRef, dims, zoom, interactionRef, activeOperation,
           activeLayerId, showSnapX, showSnapY, listening, ev, gestures,
           wrapIn, wrapOut, deck, exportSlides, exportPc, exportIdx, zip,
           imgStatus, serverOut, keys, renderIn, renderOut, heap, slides, nextId,
           resp, calls, renders, history, future, lastSavedStateRef,
           historyDebounceTimer, undone >>

previewVars == << slide, slideRef, dims, zoom, interactionRef, activeOperation,
                  activeLayerId, showSnapX, showSnapY, listening, ev, gestures >>
wrapVars == << wrapIn, wrapOut >>
exportVars == << deck, exportSlides, exportPc, exportIdx, zip, imgStatus,
                serverOut >>
keyVars == << keys >>
renderVars == << renderIn, renderOut >>
serverVars == << heap, slides, nextId, resp, calls, renders >>
historyVars == << history, future, lastSavedStateRef, historyDebounceTimer,
                 undone >>

(***************************************************************************)
(* Units                                                                   *)
(***************************************************************************)
\* One percent, in model units: 360 makes the padding (1.2% of the width)
\* and the default line height (6.9% of the width) whole on 9:16, 1:1 and
\* 16:9 surfaces; 256 leaves room for the halvings of successive resizes.
Unit == 360 * 256

Pct(p) == p * Unit

\* Tenths of a percent, for 1.5 and 0.2.
Tenths(t) == (t * Unit) \div 10

Max(a, b) == IF a >= b THEN a ELSE b
Min(a, b) == IF a <= b THEN a ELSE b
Abs(a) == IF a >= 0 THEN a ELSE 0 - a

\* (pct / 100) * dim, with dim given in pixels per model unit
PctToPx(pct, dim) == pct * dim

\* (px / dim) * 100
PxToPct(px, dim) == px \div dim

AspectRatios == {"9:16", "1:1", "16:9"}

\* offsetWidth/offsetHeight of the container for each aspect ratio, in pixels
\* per model unit (the container style fixes only the ratio).
DimsFor(aspect) ==
    CASE aspect = "9:16" -> [width |-> 9, height |-> 16]
      [] aspect = "1:1"  -> [width |-> 9, height |-> 9]
      [] aspect = "16:9" -> [width |-> 16, height |-> 9]

\* the full width / height of a surface in pixels
FullPx(dim) == PctToPx(Pct(100), dim)

(***************************************************************************)
(* Text measurement and word wrap                                          *)
(***************************************************************************)
\* Characters of the modelled contents: a wide glyph, a narrow glyph, the
\* space and the explicit line break.
Chars == {"W", "i", " ", "\n"}

\* size = baseSize * globalScale * fontScaleFactor, with baseSize 60,
\* globalScale 1 and fontScaleFactor = dims.width / 1000
FontSize(width) == 60 * (FullPx(width) \div 1000)

\* ctx.measureText(str).width for a font of the given size: the advance
\* widths add up; "W" is one em wide, "i" and the space a quarter em.
CharWidth(c, size) == IF c = "W" THEN size ELSE size \div 4

RECURSIVE MeasureText(_, _)
MeasureText(str, size) ==
    IF str = << >> THEN 0
    ELSE CharWidth(Head(str), size) + MeasureText(Tail(str), size)

\* String.prototype.split('\n')
RECURSIVE SplitNewlineFrom(_, _, _, _)
SplitNewlineFrom(s, i, cur, acc) ==
    IF i > Len(s) THEN Append(acc, cur)
    ELSE IF s[i] = "\n" THEN SplitNewlineFrom(s, i + 1, << >>, Append(acc, cur))
    ELSE SplitNewlineFrom(s, i + 1, Append(cur, s[i]), acc)

SplitNewline(s) == SplitNewlineFrom(s, 1, << >>, << >>)

\* String.prototype.split(/\s+/): every maximal run of whitespace separates;
\* a leading or trailing run leaves an empty first or last piece.
RECURSIVE SplitWhitespaceFrom(_, _, _, _, _)
SplitWhitespaceFrom(p, i, cur, acc, inSep) ==
    IF i > Len(p) THEN Append(acc, cur)
    ELSE IF p[i] = " "
         THEN IF inSep THEN SplitWhitespaceFrom(p, i + 1, cur, acc, TRUE)
              ELSE SplitWhitespaceFrom(p, i + 1, << >>, Append(acc, cur), TRUE)
         ELSE SplitWhitespaceFrom(p, i + 1, Append(cur, p[i]), acc, FALSE)

SplitWhitespace(p) == SplitWhitespaceFrom(p, 1, << >>, << >>, FALSE)

\* Mutant of FitsBudget: the candidate line is accepted while the line
\* built so far fits, the new word not being measured.
FitsBudgetStale(currentLine, word, maxAllowedWidthPx, size) ==
    MeasureText(currentLine, size) <= maxAllowedWidthPx

\* ctx.measureText(testLine).width <= maxAllowedWidthPx
FitsBudget(currentLine, word, maxAllowedWidthPx, size) ==
    MeasureText(currentLine \o << " " >> \o word, size) <= maxAllowedWidthPx

\* The for loop over words[1..] of one paragraph: returns the lines closed
\* so far followed by the last currentLine.
RECURSIVE WrapWords(_, _, _, _, _, _)
WrapWords(words, i, currentLine, lines, maxAllowedWidthPx, size) ==
    IF i > Len(words) THEN Append(lines, currentLine)
    ELSE IF FitsBudget(currentLine, words[i], maxAllowedWidthPx, size)
         THEN WrapWords(words, i + 1, currentLine \o << " " >> \o words[i],
                        lines, maxAllowedWidthPx, size)
         ELSE WrapWords(words, i + 1, words[i], Append(lines, currentLine),
                        maxAllowedWidthPx, size)

\* Mutant of WrapParagraph: the loop starts from an empty line instead of
\* words[0].
WrapParagraphDroppingFirst(p, maxAllowedWidthPx, size) ==
    LET words == SplitWhitespace(p)
    IN  WrapWords(words, 2, << >>, << >>, maxAllowedWidthPx, size)

\* One paragraph: words = p.split(/\s+/); currentLine = words[0] || ""
WrapParagraph(p, maxAllowedWidthPx, size) ==
    LET words == SplitWhitespace(p)
    IN  WrapWords(words, 2, words[1], << >>, maxAllowedWidthPx, size)

RECURSIVE ConcatAll(_)
ConcatAll(ss) == IF ss = << >> THEN << >> ELSE Head(ss) \o ConcatAll(Tail(ss))

\* content.split('\n').forEach(p => ...): the lines of all paragraphs in order
WrapLines(content, maxAllowedWidthPx, size) ==
    LET ps == SplitNewline(content)
    IN  ConcatAll([k \in 1..Len(ps) |-> WrapParagraph(ps[k], maxAllowedWidthPx, size)])

RECURSIVE MaxLineWidth(_, _)
MaxLineWidth(lines, size) ==
    IF lines = << >> THEN 0
    ELSE Max(MeasureText(Head(lines), size), MaxLineWidth(Tail(lines), size))

\* The per-layer result of the layout pass that geometry depends on.
\* widthPercent = layer.width || 80; lineHeight = size * 1.15
LayoutLayer(content, layerWidth, width) ==
    LET size == FontSize(width)
        widthPercent == IF layerWidth = 0 THEN Pct(80) ELSE layerWidth
        maxAllowedWidthPx == PctToPx(widthPercent, width)
        lines == WrapLines(content, maxAllowedWidthPx, size)
        lineHeight == (size * 115) \div 100
    IN  [ lines |-> lines,
          lineHeight |-> lineHeight,
          size |-> size,
          height |-> Len(lines) * lineHeight,
          boundaryWidthPx |-> maxAllowedWidthPx,
          actualContentWidth |-> MaxLineWidth(lines, size),
          widthPercent |-> widthPercent ]

\* Number of words (maximal runs of non-space characters) on a line
WordCount(line) == Cardinality({ k \in 1..Len(SplitWhitespace(line)) :
                                   SplitWhitespace(line)[k] # << >> })

(***************************************************************************)
(* Values shared by the specifications                                     *)
(***************************************************************************)
NoInteraction == [operation |-> "null"]
NoLayout == [lines |-> "none"]
NoEvent == [type |-> "init", emitted |-> FALSE, clientX |-> 0, clientY |-> 0]
Null == "null"
Undefined == "undefined"

\* The controller and the export loop at rest, for the specifications that
\* do not exercise them.
PreviewAtRest ==
    /\ slide = [layers |-> << >>, constrainToSlide |-> FALSE]
    /\ slideRef = slide
    /\ zoom = 1
    /\ interactionRef = NoInteraction
    /\ activeOperation = "none"
    /\ activeLayerId = Null
    /\ showSnapX = FALSE
    /\ showSnapY = FALSE
    /\ listening = FALSE
    /\ ev = NoEvent
    /\ gestures = 0

WrapAtRest ==
    /\ wrapIn = [content |-> << >>, widthPercent |-> Pct(80)]
    /\ wrapOut = NoLayout

ExportAtRest ==
    /\ deck = << >>
    /\ exportSlides = << >>
    /\ exportPc = << >>
    /\ exportIdx = << >>
    /\ zip = << >>
    /\ imgStatus = << >>
    /\ serverOut = << >>

KeysAtRest == keys = 0

NoTimer == [pending |-> FALSE]
NoUndo == [phase |-> "none"]

HistoryAtRest ==
    /\ history = << >>
    /\ future = << >>
    /\ lastSavedStateRef = << >>
    /\ historyDebounceTimer = NoTimer
    /\ undone = NoUndo

NoGeometry == [lines |-> "none"]

RenderAtRest ==
    /\ renderIn = [layer |-> "none"]
    /\ renderOut = NoGeometry

\* A response of POST /mcp/execute: the tool named by the request, the HTTP
\* status, the kind of JSON value sent and, for an object, its field names;
\* for render_slide also the layers drawn and the layers the slide had when
\* the request was received.
NoResponse == [ tool |-> "none", code |-> 0, kind |-> "none", fields |-> {},
                drawn |-> << >>, received |-> << >>, before |-> << >>,
                call |-> 0 ]

ServerAtRest ==
    /\ heap = << >>
    /\ slides = << >>
    /\ nextId = 1
    /\ resp = NoResponse
    /\ calls = 0
    /\ renders = {}

(***************************************************************************)
(* SpecWrap: the layout pass on bounded contents                           *)
(***************************************************************************)
\* longest content handed to the layout pass
MaxLen == 5

\* layer.width values handed to the layout pass, in percent
WrapWidths == {5, 10, 15}

Contents == UNION { [1..n -> Chars] : n \in 0..MaxLen }

InitWrap ==
    /\ HistoryAtRest
    /\ wrapIn \in [content : Contents, widthPercent : {Pct(w) : w \in WrapWidths}]
    /\ wrapOut = NoLayout
    /\ dims \in {DimsFor(a) : a \in AspectRatios}
    /\ PreviewAtRest
    /\ ExportAtRest
    /\ KeysAtRest
    /\ RenderAtRest
    /\ ServerAtRest

\* const layout = useMemo(...) for the one layer of wrapIn
LayoutPass ==
    /\ wrapOut = NoLayout
    /\ wrapOut' = LayoutLayer(wrapIn.content, wrapIn.widthPercent, dims.width)
    /\ UNCHANGED << wrapIn, previewVars, exportVars,
                    keyVars, renderVars, serverVars, historyVars >>

NextWrap == LayoutPass

SpecWrap == InitWrap /\ [][NextWrap]_vars

\* the wrap budget of the layout in wrapOut, and the measured width of a line
WrapBudgetPx == wrapOut.boundaryWidthPx
LineWidthPx(line) == MeasureText(line, wrapOut.size)

\* C5: every produced line that holds two or more words measures at most
\* the wrap budget; only single-word lines may be wider.
C5_MultiWordLinesFit ==
    wrapOut # NoLayout =>
        \A k \in 1..Len(wrapOut.lines) :
            WordCount(wrapOut.lines[k]) >= 2 =>
                LineWidthPx(wrapOut.lines[k]) <= WrapBudgetPx

\* a layout with a two-word line next to a single word wider than the budget
C5_Witness ==
    /\ wrapOut # NoLayout
    /\ \E k \in 1..Len(wrapOut.lines) : WordCount(wrapOut.lines[k]) >= 2
    /\ \E k \in 1..Len(wrapOut.lines) :
          /\ WordCount(wrapOut.lines[k]) = 1
          /\ LineWidthPx(wrapOut.lines[k]) > WrapBudgetPx

\* C6: every line produced by word-wrap is a non-empty string unless the
\* content is entirely empty.
C6_NoEmptyLine ==
    (wrapOut # NoLayout /\ wrapIn.content # << >>) =>
        \A k \in 1..Len(wrapOut.lines) : wrapOut.lines[k] # << >>

(***************************************************************************)
(* SlidePreview: geometry                                                  *)
(***************************************************************************)
\* containerRef.current.getBoundingClientRect(): the container's layout size
\* scaled by the zoom transform.  Client coordinates are taken relative to
\* the container's left/top (containerRect.left = containerRect.top = 0).
ContainerRect == [width |-> dims.width * zoom, height |-> dims.height * zoom]

\* newLayers.findIndex(l => l.id === id), 0 standing for -1
RECURSIVE FindIndexFrom(_, _, _)
FindIndexFrom(layers, id, k) ==
    IF k > Len(layers) THEN 0
    ELSE IF layers[k].id = id THEN k
    ELSE FindIndexFrom(layers, id, k + 1)

FindIndex(layers, id) == FindIndexFrom(layers, id, 1)

LayerIdsOf(layers) == { layers[k].id : k \in 1..Len(layers) }

\* layoutRef.current for a layer: the effects that store slideRef.current and
\* layoutRef.current run in the same commit, so the stored layout is the
\* layout of the stored slide at the current dims.
LayoutOf(layer) == LayoutLayer(layer.content, layer.width, dims.width)

\* const padding = 12 * fontScaleFactor / paddingPx = 12 * (refW / 1000)
PaddingPx(refW) == 12 * (FullPx(refW) \div 1000)

\* The rendered box of a layer that is not being resized: boxX, boxY, boxW,
\* boxH of the render, in pixels of the dims surface.
RenderedBox(layer) ==
    LET ly == LayoutOf(layer)
        centerX == PctToPx(layer.x, dims.width)
        centerY == PctToPx(layer.y, dims.height)
        padding == PaddingPx(dims.width)
        displayW == ly.actualContentWidth
        boxX == CASE layer.alignment = "left" ->
                       (centerX - (ly.boundaryWidthPx \div 2)) - padding
                  [] layer.alignment = "right" ->
                       (centerX + (ly.boundaryWidthPx \div 2)) - displayW - padding
                  [] OTHER -> centerX - (displayW \div 2) - padding
    IN  [ boxX |-> boxX,
          boxY |-> centerY - (ly.height \div 2) - padding,
          boxW |-> displayW + (padding * 2),
          boxH |-> ly.height + (padding * 2) ]

(***************************************************************************)
(* SlidePreview: pointer-move, resize branch                               *)
(***************************************************************************)
\* let newWidthPercent = (newWidthPx / containerRect.width) * 100;
\* if (newWidthPercent > 100 && constrainToSlide) newWidthPercent = 100;
ResizeWidthPercent(newWidthPx, rectWidth, constrain) ==
    IF PxToPct(newWidthPx, rectWidth) > Pct(100) /\ constrain THEN Pct(100)
    ELSE PxToPct(newWidthPx, rectWidth)

\* Mutant of ResizedLayer: no minimum width, the moving edge may reach the
\* fixed one.
ResizedLayerNoFloor(layer, clientX, handleSide, fixedOppositeEdgePx, constrain) ==
    LET rectWidth == ContainerRect.width
        pointer0 == IF constrain THEN Max(0, Min(FullPx(rectWidth), clientX))
                    ELSE clientX
        pointerX == IF handleSide = "left"
                    THEN Min(pointer0, fixedOppositeEdgePx)
                    ELSE Max(pointer0, fixedOppositeEdgePx)
        newWidthPx == IF handleSide = "left" THEN fixedOppositeEdgePx - pointerX
                      ELSE pointerX - fixedOppositeEdgePx
        newCenterPx == IF handleSide = "left" THEN pointerX + (newWidthPx \div 2)
                       ELSE fixedOppositeEdgePx + (newWidthPx \div 2)
    IN  [layer EXCEPT !.width = ResizeWidthPercent(newWidthPx, rectWidth, constrain),
                      !.x = PxToPct(newCenterPx, rectWidth)]

\* Mutant of ResizedLayer: the pointer is not clamped to the container box.
ResizedLayerPointerFree(layer, clientX, handleSide, fixedOppositeEdgePx, constrain) ==
    LET rectWidth == ContainerRect.width
        minWidthPx == FullPx(rectWidth) \div 10
        pointerX == IF handleSide = "left"
                    THEN Min(clientX, fixedOppositeEdgePx - minWidthPx)
                    ELSE Max(clientX, fixedOppositeEdgePx + minWidthPx)
        newWidthPx == IF handleSide = "left" THEN fixedOppositeEdgePx - pointerX
                      ELSE pointerX - fixedOppositeEdgePx
        newCenterPx == IF handleSide = "left" THEN pointerX + (newWidthPx \div 2)
                       ELSE fixedOppositeEdgePx + (newWidthPx \div 2)
    IN  [layer EXCEPT !.width = ResizeWidthPercent(newWidthPx, rectWidth, constrain),
                      !.x = PxToPct(newCenterPx, rectWidth)]

\* Mutant of ResizedLayer: the layer is also re-centred vertically on the
\* pointer's column.
ResizedLayerMovingY(layer, clientX, handleSide, fixedOppositeEdgePx, constrain) ==
    LET rectWidth == ContainerRect.width
        pointer0 == IF constrain THEN Max(0, Min(FullPx(rectWidth), clientX))
                    ELSE clientX
        minWidthPx == FullPx(rectWidth) \div 10
        pointerX == IF handleSide = "left"
                    THEN Min(pointer0, fixedOppositeEdgePx - minWidthPx)
                    ELSE Max(pointer0, fixedOppositeEdgePx + minWidthPx)
        newWidthPx == IF handleSide = "left" THEN fixedOppositeEdgePx - pointerX
                      ELSE pointerX - fixedOppositeEdgePx
        newCenterPx == IF handleSide = "left" THEN pointerX + (newWidthPx \div 2)
                       ELSE fixedOppositeEdgePx + (newWidthPx \div 2)
    IN  [layer EXCEPT !.width = ResizeWidthPercent(newWidthPx, rectWidth, constrain),
                      !.x = PxToPct(newCenterPx, rectWidth),
                      !.y = PxToPct(newCenterPx, rectWidth)]

\* The layer written by a resize pointer-move at clientX.
ResizedLayer(layer, clientX, handleSide, fixedOppositeEdgePx, constrain) ==
    LET rectWidth == ContainerRect.width
        pointer0 == IF constrain THEN Max(0, Min(FullPx(rectWidth), clientX))
                    ELSE clientX
        minWidthPx == FullPx(rectWidth) \div 10
        pointerX == IF handleSide = "left"
                    THEN Min(pointer0, fixedOppositeEdgePx - minWidthPx)
                    ELSE Max(pointer0, fixedOppositeEdgePx + minWidthPx)
        newWidthPx == IF handleSide = "left" THEN fixedOppositeEdgePx - pointerX
                      ELSE pointerX - fixedOppositeEdgePx
        newCenterPx == IF handleSide = "left" THEN pointerX + (newWidthPx \div 2)
                       ELSE fixedOppositeEdgePx + (newWidthPx \div 2)
    IN  [layer EXCEPT !.width = ResizeWidthPercent(newWidthPx, rectWidth, constrain),
                      !.x = PxToPct(newCenterPx, rectWidth)]

(***************************************************************************)
(* SlidePreview: pointer-move, drag branch                                 *)
(***************************************************************************)
\* targetX of the snap logic: 50 - offsetPercent
SnapTargetX(layer) ==
    LET ly == LayoutOf(layer)
        w == ly.boundaryWidthPx
        c == ly.actualContentWidth
        offsetPx == CASE layer.alignment = "left" -> (c - w) \div 2
                      [] layer.alignment = "right" -> (w - c) \div 2
                      [] OTHER -> 0
    IN  Pct(50) - PxToPct(offsetPx, dims.width)

\* Mutant of SnapDelta: the indicator is raised but the delta is left raw.
SnapDeltaRaw(isSnapped, target, start, raw) == raw

\* finalDx = targetX - pos.x when snapped, else the raw delta
SnapDelta(isSnapped, target, start, raw) ==
    IF isSnapped THEN target - start ELSE raw

\* "Only calculate snap if one item selected": the snap decision of a drag
\* pointer-move with raw delta (rawDx, rawDy).
SnapOf(initialPositions, layers, rawDx, rawDy) ==
    IF Cardinality(DOMAIN initialPositions) = 1
    THEN LET id == CHOOSE i \in DOMAIN initialPositions : TRUE
             pos == initialPositions[id]
             idx == FindIndex(layers, id)
         IN  IF idx # 0
             THEN LET targetX == SnapTargetX(layers[idx])
                      isSnappedX == Abs(pos.x + rawDx - targetX) < Tenths(15)
                      isSnappedY == Abs(pos.y + rawDy - Pct(50)) < Tenths(15)
                  IN  [ finalDx |-> SnapDelta(isSnappedX, targetX, pos.x, rawDx),
                        finalDy |-> SnapDelta(isSnappedY, Pct(50), pos.y, rawDy),
                        isSnappedX |-> isSnappedX,
                        isSnappedY |-> isSnappedY ]
             ELSE [finalDx |-> rawDx, finalDy |-> rawDy,
                   isSnappedX |-> FALSE, isSnappedY |-> FALSE]
    ELSE [finalDx |-> rawDx, finalDy |-> rawDy,
          isSnappedX |-> FALSE, isSnappedY |-> FALSE]

\* minX / maxX and the vertical half height of the constrain logic, in percent
EnvelopeOf(layer) ==
    LET ly == LayoutOf(layer)
        refW == dims.width
        refH == dims.height
        paddingPx == PaddingPx(refW)
        boxHPx == ly.height + (paddingPx * 2)
        halfHPct == PxToPct(boxHPx, refH) \div 2
        displayWPx == ly.actualContentWidth
        boundaryWPx == ly.boundaryWidthPx
        deltaLeftPx == CASE layer.alignment = "left" ->
                              (0 - (boundaryWPx \div 2)) - paddingPx
                         [] layer.alignment = "right" ->
                              (boundaryWPx \div 2) - displayWPx - paddingPx
                         [] OTHER -> (0 - (displayWPx \div 2)) - paddingPx
        deltaRightPx == CASE layer.alignment = "left" ->
                              (0 - (boundaryWPx \div 2)) + displayWPx + paddingPx
                          [] layer.alignment = "right" ->
                              (boundaryWPx \div 2) + paddingPx
                          [] OTHER -> (displayWPx \div 2) + paddingPx
    IN  [ minX |-> 0 - PxToPct(deltaLeftPx, refW),
          maxX |-> Pct(100) - PxToPct(deltaRightPx, refW),
          minY |-> halfHPct,
          maxY |-> Pct(100) - halfHPct ]

\* Mutant of ClampX: the centred formula for every alignment's box, i.e.
\* the anchor itself is kept on the surface.
ClampXAnchorOnly(layer, targetX) == Max(0, Min(Pct(100), targetX))

\* Mutant of ClampX: an envelope whose bounds have crossed is not applied.
ClampXWhenOrdered(layer, targetX) ==
    IF EnvelopeOf(layer).minX <= EnvelopeOf(layer).maxX
    THEN Max(EnvelopeOf(layer).minX, Min(EnvelopeOf(layer).maxX, targetX))
    ELSE targetX

\* targetX = Math.max(minX, Math.min(maxX, targetX))
ClampX(layer, targetX) ==
    Max(EnvelopeOf(layer).minX, Min(EnvelopeOf(layer).maxX, targetX))

\* targetY = Math.max(halfHPct, Math.min(100 - halfHPct, targetY))
ClampY(layer, targetY) ==
    Max(EnvelopeOf(layer).minY, Min(EnvelopeOf(layer).maxY, targetY))

\* Mutant of DraggedLayer: the delta is added to the layer's current
\* position instead of the position recorded at pointer-down.
DraggedLayerIncremental(layer, pos, finalDx, finalDy, constrain) ==
    LET targetX == layer.x + finalDx
        targetY == layer.y + finalDy
    IN  IF constrain
        THEN [layer EXCEPT !.x = ClampX(layer, targetX),
                           !.y = ClampY(layer, targetY)]
        ELSE [layer EXCEPT !.x = targetX, !.y = targetY]

\* The layer written for one entry of initialPositions by a drag move.
DraggedLayer(layer, pos, finalDx, finalDy, constrain) ==
    LET targetX == pos.x + finalDx
        targetY == pos.y + finalDy
    IN  IF constrain
        THEN [layer EXCEPT !.x = ClampX(layer, targetX),
                           !.y = ClampY(layer, targetY)]
        ELSE [layer EXCEPT !.x = targetX, !.y = targetY]

(***************************************************************************)
(* Spec: the gesture controller                                            *)
(***************************************************************************)
\* pointer-downs handled in one behaviour
MaxGestures == 2

LayerIds == {"a", "b"}

\* A short two-word text, and one word whose padded width exceeds the
\* surface (17 glyphs of 6% each).
ShortText == << "W", " ", "W" >>
WideText == [k \in 1..17 |-> "W"]

\* Client positions of pointer events, in percent of the container box.
DownPoints == { <<50, 50>> }
MovePoints == { <<50, 50>>, <<51, 51>>, <<92, 45>>, <<-10, 120>> }

\* What the preview is mounted with: aspect ratio, zoom, and the alignment
\* and text of layer "a".
Mounts == { <<"9:16", 1, "left", ShortText>>,
            <<"1:1", 2, "center", ShortText>>,
            <<"16:9", 1, "right", ShortText>>,
            <<"9:16", 2, "center", WideText>> }

ClientX(pt) == PctToPx(Pct(pt[1]), ContainerRect.width)
ClientY(pt) == PctToPx(Pct(pt[2]), ContainerRect.height)

\* Import constructs layers at x = 50, y = 50, width = 80; alignment, text
\* and selection are whatever the style panel and earlier clicks left: layer
\* "a" is selected, alone or together with "b".
NewLayer(id, content, alignment, selected) ==
    [ id |-> id, content |-> content, width |-> Pct(80),
      x |-> Pct(50), y |-> Pct(50), selected |-> selected,
      alignment |-> alignment ]

Init ==
    /\ HistoryAtRest
    /\ \E m \in Mounts, sel \in BOOLEAN, con \in BOOLEAN :
          /\ slide = [ layers |-> << NewLayer("a", m[4], m[3], TRUE),
                                    NewLayer("b", ShortText, "center", sel) >>,
                      constrainToSlide |-> con ]
          /\ dims = DimsFor(m[1])
          /\ zoom = m[2]
    /\ slideRef = slide
    /\ interactionRef = NoInteraction
    /\ activeOperation = "none"
    /\ activeLayerId = Null
    /\ showSnapX = FALSE
    /\ showSnapY = FALSE
    /\ listening = FALSE
    /\ ev = NoEvent
    /\ gestures = 0
    /\ WrapAtRest
    /\ ExportAtRest
    /\ KeysAtRest
    /\ RenderAtRest
    /\ ServerAtRest

\* onPositionChangeRef.current(newLayers): App replaces the layers of the
\* active slide.
Emit(newLayers) == slide' = [slide EXCEPT !.layers = newLayers]

\* currentSlide.layers.map(l => ({ ...l, selected: l.id === layerId }))
SelectOnly(layers, layerId) ==
    [k \in 1..Len(layers) |-> [layers[k] EXCEPT !.selected = (layers[k].id = layerId)]]

\* Mutant of InitialPositions: only the clicked layer is recorded, the
\* multi-selection is ignored.
InitialPositionsClickedOnly(layers, layerId, isSelected) ==
    [ id \in {layerId} |-> [ x |-> layers[FindIndex(layers, id)].x,
                             y |-> layers[FindIndex(layers, id)].y ] ]

\* The Map filled by the drag branch of handlePointerDown.
InitialPositions(layers, layerId, isSelected) ==
    LET ids == { layers[k].id : k \in { j \in 1..Len(layers) :
                     IF isSelected THEN layers[j].selected
                     ELSE layers[j].id = layerId } }
    IN  [ id \in ids |-> [ x |-> layers[FindIndex(layers, id)].x,
                           y |-> layers[FindIndex(layers, id)].y ] ]

\* fixedOppositeEdgePx of the resize branch of handlePointerDown
FixedOppositeEdgePx(clickedLayer, side) ==
    LET rectWidth == ContainerRect.width
        currentXPx == PctToPx(clickedLayer.x, rectWidth)
        currentWidthPx == PctToPx(IF clickedLayer.width = 0 THEN Pct(80)
                                  ELSE clickedLayer.width, rectWidth)
    IN  IF side = "left" THEN currentXPx + (currentWidthPx \div 2)
        ELSE currentXPx - (currentWidthPx \div 2)

\* Mutant of LayersRendered: the hit rectangles exist before the surface
\* has reported its size.
LayersRenderedAlways == TRUE

\* if (!ctx || dims.width <= 0) return { layers: [] }: the render maps
\* layout.layers, so hit rectangles and handles exist only once dims is set.
LayersRendered == dims.width > 0

\* handlePointerDown(e, operation, layerId, side).  The drag hit rectangle is
\* rendered for every layer, the resize handles only for a selected one.
PointerDown(operation, layerId, side, pt) ==
    /\ gestures < MaxGestures
    /\ LayersRendered
    /\ layerId \in LayerIdsOf(slide.layers)
    /\ operation = "resize" =>
          /\ side \in {"left", "right"}
          /\ slide.layers[FindIndex(slide.layers, layerId)].selected
    /\ operation = "drag" => side = Undefined
    /\ LET currentSlide == slideRef
           idx == FindIndex(currentSlide.layers, layerId)
           isSelected == idx # 0 /\ currentSlide.layers[idx].selected
           emits == idx # 0 /\ ~isSelected
       IN  /\ interactionRef' =
                 [ startX |-> ClientX(pt),
                   startY |-> ClientY(pt),
                   initialPositions |->
                       IF operation = "drag"
                       THEN InitialPositions(currentSlide.layers, layerId, isSelected)
                       ELSE << >>,
                   operation |-> operation,
                   layerId |-> layerId,
                   handleSide |-> side,
                   fixedOppositeEdgePx |->
                       IF operation = "resize" /\ idx # 0
                       THEN FixedOppositeEdgePx(currentSlide.layers[idx], side)
                       ELSE 0 ]
           /\ IF emits THEN Emit(SelectOnly(currentSlide.layers, layerId))
              ELSE UNCHANGED slide
           /\ ev' = [type |-> "down", emitted |-> emits,
                     clientX |-> ClientX(pt), clientY |-> ClientY(pt)]
    /\ activeOperation' = operation
    /\ activeLayerId' = layerId
    /\ listening' = TRUE
    /\ gestures' = gestures + 1
    /\ UNCHANGED << slideRef, dims, zoom, showSnapX, showSnapY, wrapVars, exportVars,
                    keyVars, renderVars, serverVars, historyVars >>

\* handleWindowPointerMove, resize branch
MoveResize(pt) ==
    LET it == interactionRef
        currentSlide == slideRef
        layerIndex == FindIndex(currentSlide.layers, it.layerId)
    IN  /\ IF layerIndex = 0
           THEN /\ UNCHANGED slide
                /\ ev' = [type |-> "move", emitted |-> FALSE,
                          clientX |-> ClientX(pt), clientY |-> ClientY(pt)]
           ELSE /\ Emit([currentSlide.layers EXCEPT ![layerIndex] =
                           ResizedLayer(currentSlide.layers[layerIndex], ClientX(pt),
                                        it.handleSide, it.fixedOppositeEdgePx,
                                        currentSlide.constrainToSlide)])
                /\ ev' = [type |-> "move", emitted |-> TRUE,
                          clientX |-> ClientX(pt), clientY |-> ClientY(pt)]
        /\ UNCHANGED << showSnapX, showSnapY >>

\* Mutant of RawDx: the pointer position is not taken relative to startX.
RawDxFromOrigin(pt) == PxToPct(ClientX(pt), ContainerRect.width)

\* rawDx / rawDy: the pointer displacement in percent of the container box
RawDx(pt) == PxToPct(ClientX(pt) - interactionRef.startX, ContainerRect.width)
RawDy(pt) == PxToPct(ClientY(pt) - interactionRef.startY, ContainerRect.height)

\* handleWindowPointerMove, drag branch
MoveDrag(pt) ==
    LET it == interactionRef
        currentSlide == slideRef
        snap == SnapOf(it.initialPositions, currentSlide.layers, RawDx(pt), RawDy(pt))
        newLayers ==
            [k \in 1..Len(currentSlide.layers) |->
                IF currentSlide.layers[k].id \in DOMAIN it.initialPositions
                THEN DraggedLayer(currentSlide.layers[k],
                                  it.initialPositions[currentSlide.layers[k].id],
                                  snap.finalDx, snap.finalDy,
                                  currentSlide.constrainToSlide)
                ELSE currentSlide.layers[k]]
    IN  /\ showSnapX' = snap.isSnappedX
        /\ showSnapY' = snap.isSnappedY
        /\ Emit(newLayers)
        /\ ev' = [type |-> "move", emitted |-> TRUE,
                  clientX |-> ClientX(pt), clientY |-> ClientY(pt)]

\* handleWindowPointerMove(e): runs while the window listener is attached
PointerMove(pt) ==
    /\ listening
    /\ IF interactionRef = NoInteraction
       THEN /\ ev' = [type |-> "move", emitted |-> FALSE,
                      clientX |-> ClientX(pt), clientY |-> ClientY(pt)]
            /\ UNCHANGED << slide, showSnapX, showSnapY >>
       ELSE IF interactionRef.operation = "resize"
       THEN MoveResize(pt)
       ELSE MoveDrag(pt)
    /\ UNCHANGED << slideRef, dims, zoom, interactionRef, activeOperation,
                    activeLayerId, listening, gestures, wrapVars, exportVars,
                    keyVars, renderVars, serverVars, historyVars >>

\* handleWindowPointerUp: the window's pointerup listener
PointerUp ==
    /\ listening
    /\ activeOperation' = "none"
    /\ activeLayerId' = Null
    /\ showSnapX' = FALSE
    /\ showSnapY' = FALSE
    /\ interactionRef' = NoInteraction
    /\ listening' = FALSE
    /\ ev' = [type |-> "up", emitted |-> FALSE, clientX |-> 0, clientY |-> 0]
    /\ UNCHANGED << slide, slideRef, dims, zoom, gestures, wrapVars, exportVars,
                    keyVars, renderVars, serverVars, historyVars >>

\* A pointercancel of the gesture's pointer: handlePointerDown attaches
\* listeners for pointermove and pointerup only, so no handler runs.
PointerCancel ==
    /\ interactionRef # NoInteraction
    /\ ev.type # "cancel"
    /\ ev' = [type |-> "cancel", emitted |-> FALSE, clientX |-> 0, clientY |-> 0]
    /\ UNCHANGED << slide, slideRef, dims, zoom, interactionRef, activeOperation,
                    activeLayerId, showSnapX, showSnapY, listening, gestures,
                    wrapVars, exportVars,
                    keyVars, renderVars, serverVars, historyVars >>

\* useEffect(() => { slideRef.current = slide; }, [slide]) after a render
RefreshRefs ==
    /\ slideRef # slide
    /\ slideRef' = slide
    /\ ev' = [type |-> "refresh", emitted |-> FALSE, clientX |-> 0, clientY |-> 0]
    /\ UNCHANGED << slide, dims, zoom, interactionRef, activeOperation,
                    activeLayerId, showSnapX, showSnapY, listening, gestures,
                    wrapVars, exportVars,
                    keyVars, renderVars, serverVars, historyVars >>

Next ==
    \/ \E id \in LayerIds, pt \in DownPoints : PointerDown("drag", id, Undefined, pt)
    \/ \E id \in LayerIds, side \in {"left", "right"}, pt \in DownPoints :
          PointerDown("resize", id, side, pt)
    \/ \E pt \in MovePoints : PointerMove(pt)
    \/ PointerUp
    \/ PointerCancel
    \/ RefreshRefs

Spec == Init /\ [][Next]_vars

(***************************************************************************)
(* Properties of the gesture controller                                    *)
(***************************************************************************)
\* The last event was a drag pointer-move that emitted a layer list (slide
\* then holds the emitted list), resp. a resize pointer-move.
DragMoveEmitted ==
    /\ ev.type = "move" /\ ev.emitted
    /\ interactionRef # NoInteraction /\ interactionRef.operation = "drag"

ResizeMoveEmitted ==
    /\ ev.type = "move" /\ ev.emitted
    /\ interactionRef # NoInteraction /\ interactionRef.operation = "resize"

DraggedIds == DOMAIN interactionRef.initialPositions

\* the layer with the given id in the current slide (the emitted list)
LayerOf(id) == slide.layers[FindIndex(slide.layers, id)]

\* the raw delta of the pointer-move recorded in ev
EvRawDx == PxToPct(ev.clientX - interactionRef.startX, ContainerRect.width)
EvRawDy == PxToPct(ev.clientY - interactionRef.startY, ContainerRect.height)

\* the rendered box lies within [0,W] x [0,H]
BoxWithinSurface(layer) ==
    LET box == RenderedBox(layer)
    IN  /\ box.boxX >= 0
        /\ box.boxX + box.boxW <= FullPx(dims.width)
        /\ box.boxY >= 0
        /\ box.boxY + box.boxH <= FullPx(dims.height)

\* the rendered box is no larger than the surface
BoxFitsSurface(layer) ==
    /\ RenderedBox(layer).boxW <= FullPx(dims.width)
    /\ RenderedBox(layer).boxH <= FullPx(dims.height)

\* C1 as claimed: with constrainToSlide, after every drag pointer-move the
\* rendered box of each dragged layer lies within the surface, for every
\* content size.
C1_Containment ==
    (DragMoveEmitted /\ slideRef.constrainToSlide) =>
        \A id \in DraggedIds : BoxWithinSurface(LayerOf(id))

\* C1 as amended: with constrainToSlide, after every drag pointer-move the
\* rendered box of each dragged layer whose box is no larger than the
\* surface lies within the surface, whatever the pointer displacement.
C1_ContainmentWhenFits ==
    (DragMoveEmitted /\ slideRef.constrainToSlide) =>
        \A id \in DraggedIds :
            BoxFitsSurface(LayerOf(id)) => BoxWithinSurface(LayerOf(id))

\* a drag whose raw target lies left of and below the surface, clamped onto
\* the envelope's corner
C1_Witness ==
    /\ DragMoveEmitted /\ slideRef.constrainToSlide
    /\ \E id \in DraggedIds :
          /\ BoxFitsSurface(LayerOf(id))
          /\ interactionRef.initialPositions[id].x + EvRawDx < 0
          /\ interactionRef.initialPositions[id].y + EvRawDy > Pct(100)
          /\ LayerOf(id).x = EnvelopeOf(LayerOf(id)).minX
          /\ LayerOf(id).y = EnvelopeOf(LayerOf(id)).maxY
          /\ LayerOf(id).alignment # "center"

\* the edge opposite the grabbed handle, recomputed from a layer, in pixels
\* of the container box
OppositeEdgePx(layer, handleSide) ==
    IF handleSide = "left"
    THEN PctToPx(layer.x, ContainerRect.width)
           + (PctToPx(layer.width, ContainerRect.width) \div 2)
    ELSE PctToPx(layer.x, ContainerRect.width)
           - (PctToPx(layer.width, ContainerRect.width) \div 2)

\* C2: on every resize pointer-move the edge opposite the grabbed handle,
\* recomputed from the emitted layer, equals the value recorded at
\* pointer-down, for both values of constrainToSlide.
C2_OppositeEdgeFixed ==
    ResizeMoveEmitted =>
        OppositeEdgePx(LayerOf(interactionRef.layerId), interactionRef.handleSide)
            = interactionRef.fixedOppositeEdgePx

\* exactly one layer is dragged and it is centre-aligned
SingleCentered(id) ==
    /\ DragMoveEmitted
    /\ DraggedIds = {id}
    /\ LayerOf(id).alignment = "center"

\* distance of the layer's raw target x (start x plus pointer delta) from 50
TargetDistanceFrom50(id) ==
    Abs(interactionRef.initialPositions[id].x + EvRawDx - Pct(50))

\* C3 as claimed: a single centre-aligned layer whose raw target x is within
\* 1.5 of 50 is emitted at exactly 50 with the horizontal indicator raised,
\* for every constrainToSlide and content size.
C3_SnapToCenter ==
    \A id \in LayerIds :
        (SingleCentered(id) /\ TargetDistanceFrom50(id) <= Tenths(15)) =>
            LayerOf(id).x = Pct(50) /\ showSnapX

\* C3 as amended: when the raw target x is strictly less than 1.5 from 50
\* the indicator is raised, and the emitted x is exactly 50 provided
\* constrainToSlide is off or the layer's padded box is no wider than the
\* surface.
C3_SnapToCenterWhenFits ==
    \A id \in LayerIds :
        (SingleCentered(id) /\ TargetDistanceFrom50(id) < Tenths(15)) =>
            /\ showSnapX
            /\ (~slideRef.constrainToSlide
                  \/ RenderedBox(LayerOf(id)).boxW <= FullPx(dims.width))
                 => LayerOf(id).x = Pct(50)

\* a snapped drag with a nonzero raw offset from the centre, containment on
C3_Witness ==
    \E id \in LayerIds :
        /\ SingleCentered(id)
        /\ TargetDistanceFrom50(id) < Tenths(15)
        /\ TargetDistanceFrom50(id) > 0
        /\ slideRef.constrainToSlide
        /\ LayerOf(id).x = Pct(50)
        /\ showSnapX

\* the last event was a drag pointer-move at the pointer-down location
ZeroDeltaMove ==
    /\ DragMoveEmitted
    /\ ev.clientX = interactionRef.startX
    /\ ev.clientY = interactionRef.startY

\* the layer's position is the one recorded at pointer-down
AtStart(id) ==
    /\ LayerOf(id).x = interactionRef.initialPositions[id].x
    /\ LayerOf(id).y = interactionRef.initialPositions[id].y

\* C4 as claimed: a drag whose pointer-moves all carry zero displacement
\* leaves (x,y) of every dragged layer at its value before the gesture.
C4_ZeroDeltaKeepsPosition ==
    ZeroDeltaMove => \A id \in DraggedIds : AtStart(id)

\* the snap of a single dragged layer would not move it, and the recorded
\* position lies in the containment envelope when containment is on
NoSnapNoClampAtStart(id) ==
    LET pos == interactionRef.initialPositions[id]
        env == EnvelopeOf(LayerOf(id))
    IN  /\ (DraggedIds = {id}) =>
              /\ (Abs(pos.x - SnapTargetX(LayerOf(id))) >= Tenths(15)
                    \/ pos.x = SnapTargetX(LayerOf(id)))
              /\ (Abs(pos.y - Pct(50)) >= Tenths(15) \/ pos.y = Pct(50))
        /\ slideRef.constrainToSlide =>
              /\ env.minX <= pos.x /\ pos.x <= env.maxX
              /\ env.minY <= pos.y /\ pos.y <= env.maxY

\* C4 as amended: pointer-down emits no change of any (x,y), and a
\* zero-displacement pointer-move emits for a dragged layer the (x,y)
\* recorded at pointer-down whenever that position is not within snap range
\* of a snap target it is off and, with constrainToSlide, lies in the
\* layer's envelope.
C4_ZeroDeltaKeepsPositionUnlessSnapOrClamp ==
    /\ ZeroDeltaMove =>
          \A id \in DraggedIds : NoSnapNoClampAtStart(id) => AtStart(id)
    /\ (ev.type = "down" /\ ev.emitted) =>
          \A k \in 1..Len(slide.layers) :
              /\ slide.layers[k].x = slideRef.layers[k].x
              /\ slide.layers[k].y = slideRef.layers[k].y

\* a zero-displacement move of a layer that an earlier gesture left away
\* from the centre
C4_Witness ==
    /\ ZeroDeltaMove
    /\ \E id \in DraggedIds :
          /\ NoSnapNoClampAtStart(id)
          /\ AtStart(id)
          /\ LayerOf(id).x # Pct(50)

\* C7: from dragging or resizing, a pointer-up or a pointer-cancel returns
\* the controller to idle with the gesture record discarded and the window
\* listeners detached, so that later pointer-moves emit nothing.
C7_UpOrCancelReturnsToIdle ==
    ev.type \in {"up", "cancel"} =>
        /\ interactionRef = NoInteraction
        /\ activeOperation = "none"
        /\ ~listening

\* C8: a pointer-down delivered while a gesture is active does not replace
\* the in-flight gesture record.
C8_NoSecondGesture ==
    [][ (interactionRef # NoInteraction /\ ev'.type = "down"
           /\ gestures' = gestures + 1)
        => interactionRef' = interactionRef ]_vars

SelectedIdsOf(layers) == { layers[k].id : k \in { j \in 1..Len(layers) : layers[j].selected } }

\* C9: pointer-down on a layer that is not selected (in the slide the
\* handler reads) emits a list in which it is the only selected layer and
\* the gesture moves only that layer; pointer-down on a selected layer
\* emits nothing and the drag moves every selected layer, all by the same
\* delta; layers outside the gesture are emitted as they were read.
C9_SelectionOnPointerDown ==
    /\ ev.type = "down" =>
          LET id == interactionRef.layerId
              wasSelected == slideRef.layers[FindIndex(slideRef.layers, id)].selected
          IN  /\ ~wasSelected =>
                    /\ ev.emitted
                    /\ SelectedIdsOf(slide.layers) = {id}
                    /\ interactionRef.operation = "drag" => DraggedIds = {id}
              /\ wasSelected =>
                    /\ ~ev.emitted
                    /\ interactionRef.operation = "drag"
                         => DraggedIds = SelectedIdsOf(slideRef.layers)
    /\ DragMoveEmitted =>
          /\ \A k \in 1..Len(slide.layers) :
                slide.layers[k].id \notin DraggedIds
                    => slide.layers[k] = slideRef.layers[k]
          /\ (Cardinality(DraggedIds) > 1 /\ ~slideRef.constrainToSlide) =>
                \A id \in DraggedIds :
                    /\ LayerOf(id).x = interactionRef.initialPositions[id].x + EvRawDx
                    /\ LayerOf(id).y = interactionRef.initialPositions[id].y + EvRawDy
    /\ ResizeMoveEmitted =>
          \A k \in 1..Len(slide.layers) :
              slide.layers[k].id # interactionRef.layerId
                  => slide.layers[k] = slideRef.layers[k]

\* a drag of a two-layer selection that has moved both layers
C9_Witness ==
    /\ DragMoveEmitted
    /\ Cardinality(DraggedIds) = 2
    /\ \A id \in DraggedIds : ~AtStart(id)

(***************************************************************************)
(* SpecExport: full-deck export and the renderers' background step         *)
(***************************************************************************)
\* slides in the deck
MaxSlides == 3

\* calls of handleDownload; the Export Deck button stays enabled while an
\* export is running
MaxExports == 2

\* edits of one slide while exports run
MaxEdits == 1

Exports == 1..MaxExports

\* A slide of the deck, reduced to whether its background image loads and
\* to the revision of its content.
Decks == UNION { [1..n -> [image : {"ok", "broken"}, rev : {0}]] : n \in 0..MaxSlides }

InitExport ==
    /\ HistoryAtRest
    /\ deck \in Decks
    /\ exportSlides = [e \in Exports |-> << >>]
    /\ exportPc = [e \in Exports |-> "idle"]
    /\ exportIdx = [e \in Exports |-> 0]
    /\ zip = [e \in Exports |-> << >>]
    /\ imgStatus = [e \in Exports |-> "none"]
    /\ serverOut = [k \in 1..Len(deck) |-> "none"]
    /\ dims = DimsFor("9:16")
    /\ PreviewAtRest
    /\ WrapAtRest
    /\ KeysAtRest
    /\ RenderAtRest
    /\ ServerAtRest

\* The loop head of handleDownload, for (let i = 0; i < slides.length; i++):
\* either generateSlideImage(slides[i]) is called, which sets img.src and
\* awaits the load, or the loop is over.  slides is the array the handler
\* closed over.
LoopHead(e, closure, i) ==
    IF i <= Len(closure)
    THEN /\ exportPc' = [exportPc EXCEPT ![e] = "awaitImage"]
         /\ imgStatus' = [imgStatus EXCEPT ![e] = "loading"]
    ELSE /\ exportPc' = [exportPc EXCEPT ![e] = "generateAsync"]
         /\ imgStatus' = [imgStatus EXCEPT ![e] = "none"]

\* handleDownload is called, for the e-th time: const zip = new JSZip();
\* i = 0.  Nothing disables the button or records that an export is running.
HandleDownload(e) ==
    /\ exportPc[e] = "idle"
    /\ \A f \in Exports : f < e => exportPc[f] # "idle"
    /\ exportSlides' = [exportSlides EXCEPT ![e] = deck]
    /\ zip' = [zip EXCEPT ![e] = << >>]
    /\ exportIdx' = [exportIdx EXCEPT ![e] = 1]
    /\ LoopHead(e, deck, 1)
    /\ UNCHANGED << deck, serverOut, previewVars, wrapVars,
                    keyVars, renderVars, serverVars, historyVars >>

\* The image's load event: img.onload resolves the awaited promise, the
\* slide is drawn, and handleDownload files the data URL under slide-(i+1).
ImageLoad(e) ==
    /\ exportPc[e] = "awaitImage"
    /\ imgStatus[e] = "loading"
    /\ exportSlides[e][exportIdx[e]].image = "ok"
    /\ zip' = [zip EXCEPT ![e] =
                 Append(@, [name |-> exportIdx[e], slide |-> exportIdx[e],
                            background |-> "image",
                            rev |-> exportSlides[e][exportIdx[e]].rev])]
    /\ exportIdx' = [exportIdx EXCEPT ![e] = @ + 1]
    /\ LoopHead(e, exportSlides[e], exportIdx[e] + 1)
    /\ UNCHANGED << deck, exportSlides, serverOut, previewVars, wrapVars,
                    keyVars, renderVars, serverVars, historyVars >>

\* The image's error event: generateSlideImage sets no onerror handler and
\* the promise it awaits is resolved by onload only.
ImageError(e) ==
    /\ exportPc[e] = "awaitImage"
    /\ imgStatus[e] = "loading"
    /\ exportSlides[e][exportIdx[e]].image = "broken"
    /\ imgStatus' = [imgStatus EXCEPT ![e] = "error"]
    /\ UNCHANGED << deck, exportSlides, exportPc, exportIdx, zip, serverOut,
                    previewVars, wrapVars, keyVars, renderVars, serverVars, historyVars >>

\* await zip.generateAsync(...); a.click()
GenerateAsync(e) ==
    /\ exportPc[e] = "generateAsync"
    /\ exportPc' = [exportPc EXCEPT ![e] = "done"]
    /\ UNCHANGED << deck, exportSlides, exportIdx, zip, imgStatus, serverOut,
                    previewVars, wrapVars, keyVars, renderVars, serverVars, historyVars >>

\* updateSlide: setSlides(prev => prev.map(s => s.id === activeSlide.id
\* ? { ...s, ...updates } : s)), a new array with a new object for the slide
UpdateSlide(k) ==
    /\ deck[k].rev < MaxEdits
    /\ deck' = [deck EXCEPT ![k].rev = @ + 1]
    /\ UNCHANGED << exportSlides, exportPc, exportIdx, zip, imgStatus, serverOut,
                    previewVars, wrapVars, keyVars, renderVars, serverVars, historyVars >>

\* an upload: setSlides(prev => [...prev, ...newSlides])
AddSlides(image) ==
    /\ Len(deck) < MaxSlides
    /\ deck' = Append(deck, [image |-> image, rev |-> 0])
    /\ serverOut' = Append(serverOut, "none")
    /\ UNCHANGED << exportSlides, exportPc, exportIdx, zip, imgStatus,
                    previewVars, wrapVars, keyVars, renderVars, serverVars, historyVars >>

\* renderSlideOnServer(slide): loadImage in a try block, the catch fills the
\* canvas with '#111'; the text is drawn and the image returned either way.
RenderSlideOnServer(k) ==
    /\ serverOut[k] = "none"
    /\ serverOut' = [serverOut EXCEPT ![k] =
                        IF deck[k].image = "ok" THEN "image" ELSE "fallback"]
    /\ UNCHANGED << deck, exportSlides, exportPc, exportIdx, zip, imgStatus,
                    previewVars, wrapVars, keyVars, renderVars, serverVars, historyVars >>

NextExport ==
    \/ \E e \in Exports : HandleDownload(e)
    \/ \E e \in Exports : ImageLoad(e)
    \/ \E e \in Exports : ImageError(e)
    \/ \E e \in Exports : GenerateAsync(e)
    \/ \E k \in 1..Len(deck) : UpdateSlide(k)
    \/ \E image \in {"ok", "broken"} : AddSlides(image)
    \/ \E k \in 1..Len(deck) : RenderSlideOnServer(k)

SpecExport == InitExport /\ [][NextExport]_vars

\* C10: when the background of the slide being exported has failed to load,
\* the renderer has substituted the fallback fill and produced the slide's
\* image, so that the export goes on to yield one image per slide.
C10_BrokenImageStillExports ==
    \A e \in Exports :
        imgStatus[e] = "error" =>
            /\ Len(zip[e]) >= exportIdx[e]
            /\ zip[e][exportIdx[e]].background = "fallback"

\* the exports whose generateSlideImage call has not returned
InFlight == { e \in Exports : exportPc[e] = "awaitImage" }

\* C20: during a full-deck export at most one slide render is in flight,
\* the slides are rendered in deck order, the render of slide k+1 starting
\* only after the render of slide k has completed, and the archive entry
\* with 1-based index k holds the image of the k-th slide of the deck as it
\* was when the export started.
C20_OneRenderAtATimeInDeckOrder ==
    /\ Cardinality(InFlight) <= 1
    /\ \A e \in Exports :
          exportPc[e] # "idle" =>
              /\ Len(zip[e]) = exportIdx[e] - 1
              /\ \A k \in 1..Len(zip[e]) :
                    /\ zip[e][k].name = k
                    /\ zip[e][k].slide = k
                    /\ zip[e][k].rev = exportSlides[e][k].rev

(***************************************************************************)
(* SpecRender: the text geometry of the three renderers                    *)
(***************************************************************************)
\* Contents handed to the renderers: two words that wrap at a narrow budget,
\* two paragraphs, and the empty content.
RenderContents == { << >>, ShortText, << "W", "\n", "i" >>,
                    << "W", "W", " ", "i", " ", "W" >> }

\* layer.width (0 for an unset width), layer.stroke, layer.strokeWidth (0 for
\* an unset width) and slide.settings.strokeWidth handed to the renderers
RenderWidths == { 0, Pct(10) }
StrokeFlags == { Undefined, "true", "false" }
LayerStrokeWidths == { 0, 2 }
SettingsStrokeWidths == { 0, 3 }

\* The renderer surface of renderSlideOnServer: const width = 1080, height = 1920
ServerDims == DimsFor("9:16")

\* scale = width / 1000 (fontScaleFactor of the interactive layout)
ScaleOf(width) == FullPx(width) \div 1000

\* n * scale * 1.5
StrokePx(n, width) == (n * ScaleOf(width) * 3) \div 2

\* The interactive renderer: the stroke calculation of the layout pass,
\* strokeWidth = (layer.strokeWidth || 4) * fontScaleFactor * 1.5
LayoutStrokeWidth(layer, settings, width) ==
    IF layer.stroke # Undefined
    THEN IF layer.stroke = "true"
         THEN StrokePx(IF layer.strokeWidth = 0 THEN 4 ELSE layer.strokeWidth, width)
         ELSE 0
    ELSE StrokePx(settings.strokeWidth, width)

\* The export renderers: sWidth = layer.strokeWidth || 0; the stroke is drawn
\* with lineWidth = sWidth * scale * 1.5 when useStroke && sWidth > 0
ExportStrokeWidth(layer, settings, width) ==
    LET useStroke == IF layer.stroke # Undefined THEN layer.stroke = "true"
                     ELSE settings.strokeWidth > 0
        sWidth == IF layer.stroke # Undefined THEN layer.strokeWidth
                  ELSE settings.strokeWidth
    IN  IF useStroke /\ sWidth > 0 THEN StrokePx(sWidth, width) ELSE 0

\* textX of a renderer: the text starts / ends at the boundary for left /
\* right alignment and is centred on the anchor otherwise
TextX(centerX, alignment, boundaryWidthPx) ==
    CASE alignment = "left" -> centerX - (boundaryWidthPx \div 2)
      [] alignment = "right" -> centerX + (boundaryWidthPx \div 2)
      [] OTHER -> centerX

\* The interactive renderer: the layout pass followed by the SVG text
\* placement (textX, textAnchorY = centre of the first line).
LayoutGeometry(layer, settings, d) ==
    LET ly == LayoutLayer(layer.content, layer.width, d.width)
        centerX == PctToPx(layer.x, d.width)
        centerY == PctToPx(layer.y, d.height)
    IN  [ lines |-> ly.lines,
          size |-> ly.size,
          height |-> ly.height,
          textX |-> TextX(centerX, layer.alignment, ly.boundaryWidthPx),
          textY |-> centerY - (((Len(ly.lines) - 1) * ly.lineHeight) \div 2),
          strokeWidth |-> LayoutStrokeWidth(layer, settings, d.width) ]

\* generateSlideImage: the text engine of the client export renderer
ExportGeometry(layer, settings, d) ==
    LET size == FontSize(d.width)
        maxWrapWidth == PctToPx(IF layer.width = 0 THEN Pct(80) ELSE layer.width,
                                d.width)
        lines == WrapLines(layer.content, maxWrapWidth, size)
        lineHeight == (size * 115) \div 100
        layerH == Len(lines) * lineHeight
        centerX == PctToPx(layer.x, d.width)
        centerY == PctToPx(layer.y, d.height)
        drawYStart == centerY - (layerH \div 2)
    IN  [ lines |-> lines,
          size |-> size,
          height |-> layerH,
          textX |-> TextX(centerX, layer.alignment, maxWrapWidth),
          textY |-> drawYStart + (lineHeight \div 2),
          strokeWidth |-> ExportStrokeWidth(layer, settings, d.width) ]

\* renderSlideOnServer: the same text engine on the server's fixed surface
ServerGeometry(layer, settings) == ExportGeometry(layer, settings, ServerDims)

InitRender ==
    /\ HistoryAtRest
    /\ renderIn \in
          [ layer : [ content : RenderContents,
                      width : RenderWidths,
                      x : { Pct(50), Pct(30) },
                      y : { Pct(50) },
                      alignment : { "left", "center", "right" },
                      stroke : StrokeFlags,
                      strokeWidth : LayerStrokeWidths ],
            settings : [ strokeWidth : SettingsStrokeWidths ],
            dims : { DimsFor(a) : a \in AspectRatios } ]
    /\ renderOut = [ layout |-> NoGeometry, export |-> NoGeometry,
                     server |-> NoGeometry ]
    /\ dims = renderIn.dims
    /\ PreviewAtRest
    /\ WrapAtRest
    /\ ExportAtRest
    /\ KeysAtRest
    /\ ServerAtRest

RenderFrame ==
    UNCHANGED << renderIn, previewVars, wrapVars, exportVars, keyVars, serverVars,
                 historyVars >>

\* the layout useMemo and the SVG render of SlidePreview
RenderInteractive ==
    /\ renderOut.layout = NoGeometry
    /\ renderOut' = [renderOut EXCEPT !.layout =
                        LayoutGeometry(renderIn.layer, renderIn.settings, renderIn.dims)]
    /\ RenderFrame

\* generateSlideImage(slide, aspectRatio)
RenderExport ==
    /\ renderOut.export = NoGeometry
    /\ renderOut' = [renderOut EXCEPT !.export =
                        ExportGeometry(renderIn.layer, renderIn.settings, renderIn.dims)]
    /\ RenderFrame

\* renderSlideOnServer(slide)
RenderServer ==
    /\ renderOut.server = NoGeometry
    /\ renderOut' = [renderOut EXCEPT !.server =
                        ServerGeometry(renderIn.layer, renderIn.settings)]
    /\ RenderFrame

NextRender ==
    \/ RenderInteractive
    \/ RenderExport
    \/ RenderServer

SpecRender == InitRender /\ [][NextRender]_vars

\* C11: for the same slide and the same target width and height the three
\* renderers compute the same per-layer geometry: wrapped lines, font size,
\* block height, text anchor point and resolved stroke width.
C11_RenderersAgree ==
    /\ (renderOut.layout # NoGeometry /\ renderOut.export # NoGeometry)
          => renderOut.layout = renderOut.export
    /\ (renderOut.export # NoGeometry /\ renderOut.server # NoGeometry
          /\ renderIn.dims = ServerDims)
          => renderOut.export = renderOut.server
    /\ (renderOut.layout # NoGeometry /\ renderOut.server # NoGeometry
          /\ renderIn.dims = ServerDims)
          => renderOut.layout = renderOut.server

(***************************************************************************)
(* SpecServer: the tool server (in-memory slides, POST /mcp/execute)       *)
(***************************************************************************)
\* requests handled in one behaviour
MaxCalls == 4

\* the own properties of the tools object
ToolNames == { "list_slides", "create_slide", "duplicate_slide", "delete_slide",
               "reorder_slide", "clear_project", "set_background",
               "add_text_layer", "delete_layer", "update_text",
               "update_layer_style", "apply_filter", "render_slide",
               "export_slides" }

\* tools[name] is a property lookup on an object literal: besides the own
\* properties it finds the members inherited from Object.prototype.
InheritedNames == { "toString" }

\* names a request may carry that are not in the tool table
UnknownNames == { "no_such_tool" } \cup InheritedNames

\* !tools[name]
ToolLookupFails(name) == name \notin ToolNames \cup InheritedNames

\* an id no slide or layer has
MissingId == 0

\* background image URLs: one that loads and one that does not
ImageUrls == { "ok", "broken" }

\* An optional argument of a tool call: << >> when the request does not
\* give it, << v >> when it does.
NotGiven == << >>
Given(v) == << v >>

\* x, y and width arguments of update_layer_style
StyleArgs == { [ x |-> NotGiven, y |-> NotGiven, width |-> Given(Pct(1)) ],
               [ x |-> Given(Pct(150)), y |-> Given(Pct(-20)), width |-> NotGiven ],
               [ x |-> Given(Pct(40)), y |-> Given(Pct(60)), width |-> Given(Pct(40)) ] }

\* new_index arguments of reorder_slide
NewIndexes == { 0, 7 }

InitServer ==
    /\ HistoryAtRest
    /\ heap = << >>
    /\ slides = << >>
    /\ nextId = 1
    /\ resp = NoResponse
    /\ calls = 0
    /\ renders = {}
    /\ dims = ServerDims
    /\ PreviewAtRest
    /\ WrapAtRest
    /\ ExportAtRest
    /\ KeysAtRest
    /\ RenderAtRest

ServerFrame ==
    UNCHANGED << previewVars, wrapVars, exportVars, keyVars, renderVars,
                 historyVars >>

\* a request is received: res.json / res.status(..).json is sent once
Received ==
    /\ calls < MaxCalls
    /\ calls' = calls + 1
    /\ ServerFrame

\* the deck as a value: the slide objects in the order of the slides array
Deck == [k \in 1..Len(slides) |-> heap[slides[k]]]

\* call: the request answered; before: the deck when its handler was entered
Respond(tool, code, kind, fields) ==
    resp' = [ tool |-> tool, code |-> code, kind |-> kind, fields |-> fields,
              drawn |-> << >>, received |-> << >>, before |-> Deck,
              call |-> calls + 1 ]

Success(tool, fields) == Respond(tool, 200, "object", {"status"} \cup fields)
Failure(tool) == Respond(tool, 200, "object", {"error"})

\* slides.findIndex(s => s.id === slide_id), 0 standing for -1
SlideIndex(slide_id) ==
    LET hits == { k \in 1..Len(slides) : heap[slides[k]].id = slide_id }
    IN  IF hits = {} THEN 0 ELSE CHOOSE k \in hits : \A j \in hits : k <= j

\* slides.find(s => s.id === slide_id): the reference found, 0 for undefined
SlideFound(slide_id) ==
    IF SlideIndex(slide_id) = 0 THEN 0 ELSE slides[SlideIndex(slide_id)]

\* layer_id ? slide.layers.find(l => l.id === layer_id) : slide.layers[0];
\* the index found, 0 for undefined
LayerFound(ref, layer_id) ==
    IF layer_id = NotGiven
    THEN IF heap[ref].layers = << >> THEN 0 ELSE 1
    ELSE FindIndex(heap[ref].layers, layer_id[1])

\* slide_id and layer_id arguments: the ids in the deck and a missing one
SlideIdArgs == { heap[slides[k]].id : k \in 1..Len(slides) } \cup { MissingId }
LayerIdArgs ==
    { Given(id) : id \in UNION { LayerIdsOf(heap[slides[k]].layers) :
                                    k \in 1..Len(slides) } \cup { MissingId } }
        \cup { NotGiven }

RemoveAt(seq, k) == [j \in 1..(Len(seq) - 1) |-> IF j < k THEN seq[j] ELSE seq[j + 1]]
InsertAt(seq, k, e) ==
    [j \in 1..(Len(seq) + 1) |-> IF j < k THEN seq[j]
                                 ELSE IF j = k THEN e ELSE seq[j - 1]]

\* the layer literal of create_slide and add_text_layer
ServerLayer(id, content, y) ==
    [ id |-> id, content |-> content, x |-> Pct(50), y |-> y, width |-> Pct(80) ]

\* tools.list_slides: returns the slides array itself
ListSlides ==
    /\ Received
    /\ Respond("list_slides", 200, "array", {})
    /\ UNCHANGED << heap, slides, nextId, renders >>

\* tools.create_slide
CreateSlide(url) ==
    /\ Received
    /\ heap' = Append(heap, [ id |-> nextId, image |-> url,
                              layers |-> << ServerLayer(nextId + 1, "HEADLINE", Pct(50)) >> ])
    /\ slides' = Append(slides, Len(heap) + 1)
    /\ nextId' = nextId + 2
    /\ Success("create_slide", {"slide"})
    /\ UNCHANGED renders

\* tools.duplicate_slide: a deep copy with regenerated ids
DuplicateSlide(slide_id) ==
    /\ Received
    /\ LET original == SlideFound(slide_id)
       IN  IF original = 0
           THEN /\ Failure("duplicate_slide")
                /\ UNCHANGED << heap, slides, nextId >>
           ELSE /\ heap' = Append(heap,
                      [ heap[original] EXCEPT
                          !.id = nextId,
                          !.layers = [k \in 1..Len(heap[original].layers) |->
                                         [heap[original].layers[k] EXCEPT !.id = nextId + k]] ])
                /\ slides' = Append(slides, Len(heap) + 1)
                /\ nextId' = nextId + 1 + Len(heap[original].layers)
                /\ Success("duplicate_slide", {"slide"})
    /\ UNCHANGED renders

\* tools.delete_slide
DeleteSlide(slide_id) ==
    /\ Received
    /\ IF SlideIndex(slide_id) = 0
       THEN /\ Failure("delete_slide")
            /\ UNCHANGED slides
       ELSE /\ slides' = RemoveAt(slides, SlideIndex(slide_id))
            /\ Success("delete_slide", {"deleted_id"})
    /\ UNCHANGED << heap, nextId, renders >>

\* tools.reorder_slide taking the slide out of the array before it checks
\* new_index
ReorderSlideSpliceFirst(slide_id, new_index) ==
    /\ Received
    /\ LET currentIndex == SlideIndex(slide_id)
       IN  IF currentIndex = 0
           THEN /\ Failure("reorder_slide")
                /\ UNCHANGED slides
           ELSE IF new_index < 0 \/ new_index >= Len(slides)
           THEN /\ slides' = RemoveAt(slides, currentIndex)
                /\ Failure("reorder_slide")
           ELSE /\ slides' = InsertAt(RemoveAt(slides, currentIndex), new_index + 1,
                                      slides[currentIndex])
                /\ Success("reorder_slide", {"slide_id", "new_index"})
    /\ UNCHANGED << heap, nextId, renders >>

\* tools.reorder_slide; new_index is 0-based
ReorderSlide(slide_id, new_index) ==
    /\ Received
    /\ LET currentIndex == SlideIndex(slide_id)
       IN  IF currentIndex = 0 \/ new_index < 0 \/ new_index >= Len(slides)
           THEN /\ Failure("reorder_slide")
                /\ UNCHANGED slides
           ELSE /\ slides' = InsertAt(RemoveAt(slides, currentIndex), new_index + 1,
                                      slides[currentIndex])
                /\ Success("reorder_slide", {"slide_id", "new_index"})
    /\ UNCHANGED << heap, nextId, renders >>

\* tools.clear_project: slides = []
ClearProject ==
    /\ Received
    /\ slides' = << >>
    /\ Success("clear_project", {"deleted_count"})
    /\ UNCHANGED << heap, nextId, renders >>

\* tools.set_background: slide.image = image_url
SetBackground(slide_id, url) ==
    /\ Received
    /\ LET ref == SlideFound(slide_id)
       IN  IF ref = 0
           THEN /\ Failure("set_background")
                /\ UNCHANGED heap
           ELSE /\ heap' = [heap EXCEPT ![ref].image = url]
                /\ Success("set_background", {"slide_id"})
    /\ UNCHANGED << slides, nextId, renders >>

\* The text argument of add_text_layer: a string, or nothing, which leaves
\* the content of the new layer undefined.
NoText == "(undefined)"
TextArgs == { "t1", NoText }

\* tools.add_text_layer: slide.layers.push(layer) with content: text
AddTextLayer(slide_id, text) ==
    /\ Received
    /\ LET ref == SlideFound(slide_id)
       IN  IF ref = 0
           THEN /\ Failure("add_text_layer")
                /\ UNCHANGED << heap, nextId >>
           ELSE /\ heap' = [heap EXCEPT ![ref].layers =
                               Append(@, ServerLayer(nextId, text, Pct(50)))]
                /\ nextId' = nextId + 1
                /\ Success("add_text_layer", {"layer"})
    /\ UNCHANGED << slides, renders >>

\* tools.delete_layer: slide.layers.splice(layerIndex, 1)
DeleteLayer(slide_id, layer_id) ==
    /\ Received
    /\ LET ref == SlideFound(slide_id)
       IN  IF ref = 0 \/ layer_id = NotGiven
           THEN /\ Failure("delete_layer")
                /\ UNCHANGED heap
           ELSE IF FindIndex(heap[ref].layers, layer_id[1]) = 0
           THEN /\ Failure("delete_layer")
                /\ UNCHANGED heap
           ELSE /\ heap' = [heap EXCEPT ![ref].layers =
                               RemoveAt(@, FindIndex(heap[ref].layers, layer_id[1]))]
                /\ Success("delete_layer", {"deleted_layer_id"})
    /\ UNCHANGED << slides, nextId, renders >>

\* tools.update_text: layer.content = text
UpdateText(slide_id, layer_id) ==
    /\ Received
    /\ LET ref == SlideFound(slide_id)
       IN  IF ref = 0
           THEN /\ Failure("update_text")
                /\ UNCHANGED heap
           ELSE IF LayerFound(ref, layer_id) = 0
           THEN /\ Failure("update_text")
                /\ UNCHANGED heap
           ELSE /\ heap' = [heap EXCEPT
                               ![ref].layers[LayerFound(ref, layer_id)].content = "t2"]
                /\ Success("update_text", {"layer"})
    /\ UNCHANGED << slides, nextId, renders >>

\* if (x !== undefined) layer.x = Number(x); likewise y and width
StyledLayer(layer, a) ==
    [ layer EXCEPT !.x = IF a.x # NotGiven THEN a.x[1] ELSE @,
                   !.y = IF a.y # NotGiven THEN a.y[1] ELSE @,
                   !.width = IF a.width # NotGiven THEN a.width[1] ELSE @ ]

\* tools.update_layer_style
UpdateLayerStyle(slide_id, layer_id, a) ==
    /\ Received
    /\ LET ref == SlideFound(slide_id)
       IN  IF ref = 0
           THEN /\ Failure("update_layer_style")
                /\ UNCHANGED heap
           ELSE IF LayerFound(ref, layer_id) = 0
           THEN /\ Failure("update_layer_style")
                /\ UNCHANGED heap
           ELSE /\ heap' = [heap EXCEPT ![ref].layers[LayerFound(ref, layer_id)] =
                               StyledLayer(@, a)]
                /\ Success("update_layer_style", {"layer"})
    /\ UNCHANGED << slides, nextId, renders >>

\* tools.apply_filter: only slide.effects changes
ApplyFilter(slide_id) ==
    /\ Received
    /\ IF SlideFound(slide_id) = 0
       THEN Failure("apply_filter")
       ELSE Success("apply_filter", {"effects"})
    /\ UNCHANGED << heap, slides, nextId, renders >>

\* tools.export_slides
ExportSlides ==
    /\ Received
    /\ Success("export_slides", {"message", "export_data"})
    /\ UNCHANGED << heap, slides, nextId, renders >>

\* tools.render_slide up to the await of loadImage(slide.image) in
\* renderSlideOnServer: the call holds the slide object and has handed the
\* image URL to loadImage; the response is sent when the promise settles.
RenderSlide(slide_id) ==
    /\ Received
    /\ LET ref == SlideFound(slide_id)
       IN  IF ref = 0
           THEN /\ Failure("render_slide")
                /\ UNCHANGED renders
           ELSE /\ renders' = renders \cup
                       { [ call |-> calls + 1, ref |-> ref, url |-> heap[ref].image,
                           received |-> heap[ref].layers, before |-> Deck ] }
                /\ UNCHANGED resp
    /\ UNCHANGED << heap, slides, nextId >>

\* layer.content.toUpperCase() / text.split('\n') throw on a layer whose
\* content is undefined
DrawingThrows(layers) == \E k \in 1..Len(layers) : layers[k].content = NoText

\* loadImage settles (the catch fills the fallback colour): the text layers
\* of the held slide object are drawn and result.then sends the response;
\* when the drawing throws, the catch of render_slide returns the
\* "Rendering failed" error instead.
RenderSettles(r) ==
    /\ r \in renders
    /\ renders' = renders \ {r}
    /\ resp' = IF DrawingThrows(heap[r.ref].layers)
               THEN [ tool |-> "render_slide", code |-> 200, kind |-> "object",
                      fields |-> {"error"},
                      drawn |-> << >>, received |-> r.received, before |-> r.before,
                      call |-> r.call ]
               ELSE [ tool |-> "render_slide", code |-> 200, kind |-> "object",
                      fields |-> {"status", "slide_id", "image_data_base64"},
                      drawn |-> heap[r.ref].layers, received |-> r.received,
                      before |-> r.before, call |-> r.call ]
    /\ UNCHANGED << heap, slides, nextId, calls >>
    /\ ServerFrame

\* POST /mcp/execute with a name that is not a tool of the table: the 404
\* when the lookup fails, otherwise the inherited member is called
\* (Object.prototype.toString returns a string, which res.json sends).
ExecuteUnknown(name) ==
    /\ Received
    /\ IF ToolLookupFails(name)
       THEN Respond(name, 404, "object", {"error"})
       ELSE Respond(name, 200, "string", {})
    /\ UNCHANGED << heap, slides, nextId, renders >>

\* POST /api/slides/sync: slides = req.body.  The front end posts its own
\* copy of the deck (new objects with the same ids) or an empty deck.
SyncSlides(empty) ==
    /\ Received
    /\ IF empty
       THEN /\ slides' = << >>
            /\ UNCHANGED heap
       ELSE /\ heap' = heap \o [k \in 1..Len(slides) |-> heap[slides[k]]]
            /\ slides' = [k \in 1..Len(slides) |-> Len(heap) + k]
    /\ UNCHANGED << nextId, resp, renders >>

NextServer ==
    \/ ListSlides
    \/ \E url \in ImageUrls : CreateSlide(url)
    \/ \E id \in SlideIdArgs : DuplicateSlide(id)
    \/ \E id \in SlideIdArgs : DeleteSlide(id)
    \/ \E id \in SlideIdArgs, n \in NewIndexes : ReorderSlide(id, n)
    \/ ClearProject
    \/ \E id \in SlideIdArgs, url \in ImageUrls : SetBackground(id, url)
    \/ \E id \in SlideIdArgs, text \in TextArgs : AddTextLayer(id, text)
    \/ \E id \in SlideIdArgs, lid \in LayerIdArgs : DeleteLayer(id, lid)
    \/ \E id \in SlideIdArgs, lid \in LayerIdArgs : UpdateText(id, lid)
    \/ \E id \in SlideIdArgs, lid \in LayerIdArgs, a \in StyleArgs :
          UpdateLayerStyle(id, lid, a)
    \/ \E id \in SlideIdArgs : ApplyFilter(id)
    \/ ExportSlides
    \/ \E id \in SlideIdArgs : RenderSlide(id)
    \/ \E r \in renders : RenderSettles(r)
    \/ \E name \in UnknownNames : ExecuteUnknown(name)
    \/ \E empty \in BOOLEAN : SyncSlides(empty)

SpecServer == InitServer /\ [][NextServer]_vars

\* C12: every response of the tool-execution endpoint is a success object
\* carrying a status field or an object carrying an error string, for every
\* tool of the table; a name that is not in the table gets the not-found
\* error response.
C12_ResponseShape ==
    resp # NoResponse =>
        /\ resp.kind = "object"
        /\ ("status" \in resp.fields) \/ ("error" \in resp.fields)
        /\ resp.tool \notin ToolNames => (resp.code = 404 /\ "error" \in resp.fields)

\* every layer of the preview's slide and of the server's deck
AllLayers ==
    { slide.layers[k] : k \in 1..Len(slide.layers) }
        \cup UNION { { heap[slides[k]].layers[j] :
                         j \in 1..Len(heap[slides[k]].layers) } :
                     k \in 1..Len(slides) }

\* C13: after any sequence of drags, resizes, nudges and update_layer_style
\* calls every layer's anchor satisfies 0 <= x <= 100 and 0 <= y <= 100.
C13_AnchorInRange ==
    \A layer \in AllLayers :
        /\ 0 <= layer.x /\ layer.x <= Pct(100)
        /\ 0 <= layer.y /\ layer.y <= Pct(100)

\* widthPercent = layer.width || 80: the wrap budget the layout resolves, in
\* percent of the slide width
ResolvedWidthPercent(layer) == IF layer.width = 0 THEN Pct(80) ELSE layer.width

\* C14: after any sequence of resize gestures, width edits and
\* update_layer_style calls the wrap budget the layout resolves for every
\* layer is at least 5% of the slide width.
C14_WrapBudgetAtLeast5 ==
    \A layer \in AllLayers : ResolvedWidthPercent(layer) >= Pct(5)

\* C19: the layers a render_slide call draws are the layers the slide had
\* when the call was received, whatever mutation tools or deck syncs ran
\* while the call awaited its background image.
C19_RenderDrawsSlideAsReceived ==
    resp.tool = "render_slide" /\ "status" \in resp.fields
        => resp.drawn = resp.received

\* this step sends an error result
ErrorSent == resp' # resp /\ "error" \in resp'.fields

\* C30 as stated: whenever a tool call returns an error result (unknown
\* tool, slide not found, layer not found, index out of bounds, rendering
\* failed), the deck is exactly as it was before the call: the same slides in
\* the same order with the same layers and field values.
C30_ErrorLeavesDeckAsBefore ==
    [][ ErrorSent => Deck' = resp'.before ]_vars

\* C30, amended: a tool call that returns an error result has changed nothing
\* itself: the step that sends the error leaves the deck as it is, and so do
\* the steps of render_slide that receive the call and settle it.  (Between
\* those two steps other calls may have changed the deck.)
C30_FailedCallChangesNothing ==
    [][ (ErrorSent \/ renders' # renders) => Deck' = Deck ]_vars

\* an error result was sent for a deck that has a slide: by a tool that
\* misses its target, and by a render_slide whose drawing threw
C30_Witness ==
    /\ "error" \in resp.fields
    /\ resp.before # << >>
    /\ Deck = resp.before
    /\ resp.tool = "render_slide"
    /\ resp.received # << >>

(***************************************************************************)
(* SpecKeys: keyboard shortcuts, and gestures from the first render on     *)
(***************************************************************************)
\* key presses handled in one behaviour
MaxKeys == 2

DeleteKeys == { "Delete", "Backspace" }
ArrowKeys == { "ArrowLeft", "ArrowRight", "ArrowUp", "ArrowDown" }

\* The modelled key presses: e.key, e.shiftKey, and whether e.target is an
\* input or a textarea.  Every arrow with and without shift, both delete
\* keys, a key without a shortcut, and two presses made while typing.
KeyPresses ==
    { << key, shiftKey, FALSE >> : key \in ArrowKeys, shiftKey \in BOOLEAN }
        \cup { << key, FALSE, FALSE >> : key \in DeleteKeys \cup { "a" } }
        \cup { << "Backspace", FALSE, TRUE >>, << "ArrowLeft", FALSE, TRUE >> }

\* What the preview is mounted with: (x, y) of layer "a" (the centre, or a
\* tenth of a percent from the right and top borders), the selection of
\* layers "a" and "b", and constrainToSlide.
KeyMounts ==
    { << Pct(50), Pct(50), TRUE, TRUE, TRUE >>,
      << Pct(100) - Tenths(1), Tenths(1), TRUE, FALSE, TRUE >>,
      << Pct(50), Pct(50), FALSE, FALSE, FALSE >>,
      << Pct(100) - Tenths(1), Tenths(1), FALSE, TRUE, FALSE >> }

\* offsetWidth / offsetHeight the container reports to updateDims
SurfaceSizes == { [width |-> 0, height |-> 0], DimsFor("9:16") }

\* pointer positions of the moves of this specification
KeyMovePoints == { << 60, 40 >> }

InitKeys ==
    /\ HistoryAtRest
    /\ \E m \in KeyMounts :
          slide = [ layers |->
                      << [ NewLayer("a", ShortText, "center", m[3])
                             EXCEPT !.x = m[1], !.y = m[2] ],
                         NewLayer("b", ShortText, "center", m[4]) >>,
                    constrainToSlide |-> m[5] ]
    /\ dims = [width |-> 0, height |-> 0]
    /\ zoom = 1
    /\ slideRef = slide
    /\ interactionRef = NoInteraction
    /\ activeOperation = "none"
    /\ activeLayerId = Null
    /\ showSnapX = FALSE
    /\ showSnapY = FALSE
    /\ listening = FALSE
    /\ ev = NoEvent
    /\ gestures = 0
    /\ keys = 0
    /\ WrapAtRest
    /\ ExportAtRest
    /\ RenderAtRest
    /\ ServerAtRest

\* updateDims: setDims only when both offsetWidth and offsetHeight are > 0
UpdateDims(size) ==
    /\ dims # size
    /\ size.width > 0 /\ size.height > 0
    /\ dims' = size
    /\ ev' = [type |-> "dims", emitted |-> FALSE, clientX |-> 0, clientY |-> 0]
    /\ UNCHANGED << slide, slideRef, zoom, interactionRef, activeOperation,
                    activeLayerId, showSnapX, showSnapY, listening, gestures,
                    wrapVars, exportVars, keyVars, renderVars, serverVars, historyVars >>

\* const shiftMultiplier = e.shiftKey ? 2.0 : 0.2
ShiftMultiplier(shiftKey) == IF shiftKey THEN Tenths(20) ELSE Tenths(2)

KeyDx(key, shiftKey) ==
    CASE key = "ArrowLeft" -> 0 - ShiftMultiplier(shiftKey)
      [] key = "ArrowRight" -> ShiftMultiplier(shiftKey)
      [] OTHER -> 0

KeyDy(key, shiftKey) ==
    CASE key = "ArrowUp" -> 0 - ShiftMultiplier(shiftKey)
      [] key = "ArrowDown" -> ShiftMultiplier(shiftKey)
      [] OTHER -> 0

\* Mutant of Nudged: the coordinates are not clamped.
NudgedUnclamped(l, dx, dy) == [l EXCEPT !.x = l.x + dx, !.y = l.y + dy]

\* { ...l, x: Math.max(0, Math.min(100, l.x + dx)), y: ... }
Nudged(l, dx, dy) ==
    [l EXCEPT !.x = Max(0, Min(Pct(100), l.x + dx)),
              !.y = Max(0, Min(Pct(100), l.y + dy))]

\* currentSlide.layers.map(l => l.selected ? nudged : l)
NudgedLayers(layers, dx, dy) ==
    [k \in 1..Len(layers) |->
        IF layers[k].selected THEN Nudged(layers[k], dx, dy) ELSE layers[k]]

\* Mutant of Remaining: only the first selected layer is removed.
RECURSIVE RemainingButFirst(_)
RemainingButFirst(layers) ==
    IF layers = << >> THEN << >>
    ELSE IF Head(layers).selected THEN Tail(layers)
    ELSE << Head(layers) >> \o RemainingButFirst(Tail(layers))

\* currentSlide.layers.filter(l => !l.selected)
RECURSIVE Remaining(_)
Remaining(layers) ==
    IF layers = << >> THEN << >>
    ELSE IF Head(layers).selected THEN Remaining(Tail(layers))
    ELSE << Head(layers) >> \o Remaining(Tail(layers))

\* handleKeyDown(e): the window's keydown listener.  inInput: e.target is an
\* input or a textarea.
KeyDown(key, shiftKey, inInput) ==
    /\ keys < MaxKeys
    /\ keys' = keys + 1
    /\ LET currentSlide == slideRef
           selectedLayers == SelectedIdsOf(currentSlide.layers)
           emits == /\ ~inInput
                    /\ selectedLayers # {}
                    /\ key \in DeleteKeys \cup ArrowKeys
       IN  /\ IF ~emits THEN UNCHANGED slide
              ELSE IF key \in DeleteKeys
              THEN Emit(Remaining(currentSlide.layers))
              ELSE Emit(NudgedLayers(currentSlide.layers,
                                     KeyDx(key, shiftKey), KeyDy(key, shiftKey)))
           /\ ev' = [ type |-> "key", emitted |-> emits, clientX |-> 0,
                      clientY |-> 0, key |-> key, shiftKey |-> shiftKey,
                      inInput |-> inInput ]
    /\ UNCHANGED << slideRef, dims, zoom, interactionRef, activeOperation,
                    activeLayerId, showSnapX, showSnapY, listening, gestures,
                    wrapVars, exportVars, renderVars, serverVars,
                    historyVars >>

\* A pointer-down on the surface while no layer is rendered: no element
\* carries handlePointerDown, no handler runs.
PointerDownNoTarget(pt) ==
    /\ ~LayersRendered
    /\ ev' = [type |-> "downNoTarget", emitted |-> FALSE,
              clientX |-> ClientX(pt), clientY |-> ClientY(pt)]
    /\ UNCHANGED << slide, slideRef, dims, zoom, interactionRef, activeOperation,
                    activeLayerId, showSnapX, showSnapY, listening, gestures,
                    wrapVars, exportVars, keyVars, renderVars, serverVars, historyVars >>

\* A pointer-move while the window listeners are not attached.
PointerMoveNoListener(pt) ==
    /\ ~listening
    /\ ev' = [type |-> "moveNoListener", emitted |-> FALSE,
              clientX |-> ClientX(pt), clientY |-> ClientY(pt)]
    /\ UNCHANGED << slide, slideRef, dims, zoom, interactionRef, activeOperation,
                    activeLayerId, showSnapX, showSnapY, listening, gestures,
                    wrapVars, exportVars, keyVars, renderVars, serverVars, historyVars >>

NextKeys ==
    \/ \E size \in SurfaceSizes : UpdateDims(size)
    \/ \E kp \in KeyPresses : KeyDown(kp[1], kp[2], kp[3])
    \/ \E id \in LayerIds, pt \in DownPoints : PointerDown("drag", id, Undefined, pt)
    \/ \E id \in LayerIds, pt \in DownPoints : PointerDown("resize", id, "right", pt)
    \/ \E pt \in DownPoints : PointerDownNoTarget(pt)
    \/ \E pt \in KeyMovePoints : PointerMove(pt)
    \/ \E pt \in KeyMovePoints : PointerMoveNoListener(pt)
    \/ PointerUp
    \/ RefreshRefs

SpecKeys == InitKeys /\ [][NextKeys]_vars

(***************************************************************************)
(* Properties of the keyboard shortcuts                                    *)
(***************************************************************************)
\* the last event was a press of one of the given keys; slideRef is the
\* slide the handler read, slide holds the emitted list when it emitted
KeyPressed(keySet) == ev.type = "key" /\ ev.key \in keySet

\* the step of the last arrow-key press along x and y
EvStep == IF ev.shiftKey THEN Pct(2) ELSE (Pct(2) \div 10)
EvDx == CASE ev.key = "ArrowLeft" -> 0 - EvStep
          [] ev.key = "ArrowRight" -> EvStep
          [] OTHER -> 0
EvDy == CASE ev.key = "ArrowUp" -> 0 - EvStep
          [] ev.key = "ArrowDown" -> EvStep
          [] OTHER -> 0

\* the emitted list is the list read with every selected layer moved by the
\* key's step, each coordinate clamped to [0,100], and nothing else changed
NudgeEmitted ==
    /\ ev.emitted
    /\ Len(slide.layers) = Len(slideRef.layers)
    /\ \A k \in 1..Len(slideRef.layers) :
          IF slideRef.layers[k].selected
          THEN slide.layers[k] =
                  [ slideRef.layers[k] EXCEPT
                      !.x = Max(0, Min(Pct(100), slideRef.layers[k].x + EvDx)),
                      !.y = Max(0, Min(Pct(100), slideRef.layers[k].y + EvDy)) ]
          ELSE slide.layers[k] = slideRef.layers[k]

\* C15 as claimed: an arrow-key press moves every selected layer by 0.2
\* (2.0 with shift) along the key's axis, clamped to [0,100], leaves the
\* unselected layers unchanged and does not apply the containment envelope.
C15_ArrowKeyNudge ==
    (KeyPressed(ArrowKeys) /\ SelectedIdsOf(slideRef.layers) # {}) => NudgeEmitted

\* C15 as amended: the same for a press whose target is not an input or a
\* textarea; a press made while typing in one emits nothing.
C15_ArrowKeyNudgeOutsideInputs ==
    (KeyPressed(ArrowKeys) /\ SelectedIdsOf(slideRef.layers) # {}) =>
        IF ev.inInput THEN ~ev.emitted ELSE NudgeEmitted

\* a shift-arrow press with containment on that carries a selected layer to
\* x = 100, outside its envelope, next to an unselected layer
C15_Witness ==
    /\ KeyPressed({"ArrowRight"}) /\ ev.shiftKey /\ ev.emitted
    /\ slideRef.constrainToSlide
    /\ dims.width > 0
    /\ \E k \in 1..Len(slide.layers) :
          /\ slideRef.layers[k].selected
          /\ slideRef.layers[k].x < Pct(100)
          /\ slideRef.layers[k].x + EvDx > Pct(100)
          /\ slide.layers[k].x = Pct(100)
          /\ slide.layers[k].x > EnvelopeOf(slide.layers[k]).maxX
    /\ \E k \in 1..Len(slide.layers) : ~slideRef.layers[k].selected

\* the emitted list holds exactly the layers that were not selected, in
\* their original order
UnselectedEmitted ==
    /\ ev.emitted
    /\ LayerIdsOf(slide.layers) =
          LayerIdsOf(slideRef.layers) \ SelectedIdsOf(slideRef.layers)
    /\ \A k \in 1..Len(slide.layers) :
          slide.layers[k] = slideRef.layers[FindIndex(slideRef.layers, slide.layers[k].id)]
    /\ \A i, j \in 1..Len(slide.layers) :
          i < j => FindIndex(slideRef.layers, slide.layers[i].id)
                     < FindIndex(slideRef.layers, slide.layers[j].id)

\* C16 as claimed: a Delete or Backspace press with at least one selected
\* layer emits exactly the previously unselected layers in their original
\* order; with no layer selected it emits nothing.
C16_DeleteRemovesSelected ==
    KeyPressed(DeleteKeys) =>
        IF SelectedIdsOf(slideRef.layers) # {} THEN UnselectedEmitted
        ELSE ~ev.emitted

\* C16 as amended: the same for a press whose target is not an input or a
\* textarea; a press made while typing in one emits nothing.
C16_DeleteRemovesSelectedOutsideInputs ==
    KeyPressed(DeleteKeys) =>
        IF SelectedIdsOf(slideRef.layers) # {} /\ ~ev.inInput THEN UnselectedEmitted
        ELSE ~ev.emitted

\* a Delete press that removed one of two layers and kept the other
C16_Witness ==
    /\ KeyPressed(DeleteKeys) /\ ev.emitted
    /\ Len(slideRef.layers) = 2
    /\ Len(slide.layers) = 1

\* none of the layers of the active gesture is in the slide the handlers read
TargetGone ==
    /\ interactionRef # NoInteraction
    /\ IF interactionRef.operation = "drag"
       THEN DraggedIds \cap LayerIdsOf(slideRef.layers) = {}
       ELSE interactionRef.layerId \notin LayerIdsOf(slideRef.layers)

\* C17: a pointer-move that finds the gesture's layer gone
\* changes no remaining layer and ends the gesture: the controller is idle
\* and the gesture record discarded.
C17_MoveAfterTargetGoneEndsGesture ==
    [][ (TargetGone /\ ev'.type = "move")
        => /\ slide'.layers = slideRef.layers \/ slide' = slide
           /\ interactionRef' = NoInteraction
           /\ activeOperation' = "none" ]_vars

\* a drag pointer-move handled after the dragged layer was deleted, another
\* layer remaining
C17_Witness ==
    /\ TargetGone
    /\ ev.type = "move"
    /\ interactionRef.operation = "drag"
    /\ slideRef.layers # << >>

\* C18: while the surface has not reported a nonzero size, pointer-downs and
\* pointer-moves are no-ops: no gesture starts, no listener is attached and
\* no layer update is emitted by a pointer event.
C18_NoGestureBeforeDims ==
    (dims.width = 0 \/ dims.height = 0) =>
        /\ interactionRef = NoInteraction
        /\ activeOperation = "none"
        /\ activeLayerId = Null
        /\ ~listening
        /\ gestures = 0
        /\ ev.type \in {"init", "key", "refresh", "downNoTarget", "moveNoListener"}
        /\ ev.type \in {"downNoTarget", "moveNoListener"} => ~ev.emitted

\* a pointer-move delivered after a key press while the surface has no size
C18_Witness ==
    /\ dims.width = 0
    /\ ev.type \in {"downNoTarget", "moveNoListener"}
    /\ keys > 0

(***************************************************************************)
(* SpecResize: resize gestures from every start geometry                   *)
(***************************************************************************)
\* (x, width) of the resized layer at pointer-down, in percent: the import
\* default, a narrow layer next to either border of the surface (the Width
\* Limit slider and the keyboard nudges lead there), and a default-width
\* layer whose box overhangs the right or the left border.
ResizeStarts == { <<50, 80>>, <<3, 10>>, <<97, 10>>, <<90, 80>>, <<10, 80>> }

\* aspect ratio and zoom the preview is mounted with
ResizeMounts == { <<"9:16", 1>>, <<"16:9", 2>> }

\* clientX, clientY of the pointer-moves, in percent of the container box
ResizeMovePoints == { <<50, 50>>, <<5, 51>>, <<95, 45>>, <<-10, 120>>, <<130, 10>> }

InitResize ==
    /\ HistoryAtRest
    /\ \E g \in ResizeStarts, m \in ResizeMounts, con \in BOOLEAN :
          /\ slide = [ layers |->
                         << [ NewLayer("a", ShortText, "center", TRUE)
                                EXCEPT !.x = Pct(g[1]), !.width = Pct(g[2]) ],
                            NewLayer("b", ShortText, "left", FALSE) >>,
                       constrainToSlide |-> con ]
          /\ dims = DimsFor(m[1])
          /\ zoom = m[2]
    /\ slideRef = slide
    /\ interactionRef = NoInteraction
    /\ activeOperation = "none"
    /\ activeLayerId = Null
    /\ showSnapX = FALSE
    /\ showSnapY = FALSE
    /\ listening = FALSE
    /\ ev = NoEvent
    /\ gestures = 0
    /\ WrapAtRest
    /\ ExportAtRest
    /\ KeysAtRest
    /\ RenderAtRest
    /\ ServerAtRest

NextResize ==
    \/ \E side \in {"left", "right"}, pt \in DownPoints :
          PointerDown("resize", "a", side, pt)
    \/ \E pt \in ResizeMovePoints : PointerMove(pt)
    \/ PointerUp
    \/ RefreshRefs

SpecResize == InitResize /\ [][NextResize]_vars

(***************************************************************************)
(* Properties of the resize gesture                                        *)
(***************************************************************************)
\* the layer the last resize pointer-move wrote, and the layer it read
ResizedNow == LayerOf(interactionRef.layerId)
ResizedRead == slideRef.layers[FindIndex(slideRef.layers, interactionRef.layerId)]

\* C21: after every pointer-move of a resize gesture the width emitted for
\* the resized layer is at least 10 percent of the slide width, for either
\* handle, every pointer position and both values of constrainToSlide.
C21_ResizeWidthAtLeast10 ==
    ResizeMoveEmitted => ResizedNow.width >= Pct(10)

\* a left-handle move, containment off, whose pointer is right of the fixed
\* edge: the width is held at 10
C21_Witness ==
    /\ ResizeMoveEmitted
    /\ interactionRef.handleSide = "left"
    /\ ~slideRef.constrainToSlide
    /\ ev.clientX > interactionRef.fixedOppositeEdgePx
    /\ ResizedNow.width = Pct(10)

\* the moving edge of the emitted wrap box, in percent
MovingEdge ==
    IF interactionRef.handleSide = "left"
    THEN ResizedNow.x - (ResizedNow.width \div 2)
    ELSE ResizedNow.x + (ResizedNow.width \div 2)

\* the fixed edge recorded at pointer-down leaves room for the minimum
\* width between itself and the border the moving edge faces
RoomForMinWidth ==
    LET minWidthPx == FullPx(ContainerRect.width) \div 10
    IN  IF interactionRef.handleSide = "left"
        THEN interactionRef.fixedOppositeEdgePx - minWidthPx >= 0
        ELSE interactionRef.fixedOppositeEdgePx + minWidthPx
                <= FullPx(ContainerRect.width)

C23_ResizeChangesOnlyWidthAndX ==
    ResizeMoveEmitted =>
        /\ Len(slide.layers) = Len(slideRef.layers)
        /\ \A k \in 1..Len(slideRef.layers) :
              IF slideRef.layers[k].id = interactionRef.layerId
              THEN slide.layers[k] =
                      [ slideRef.layers[k] EXCEPT !.width = slide.layers[k].width,
                                                  !.x = slide.layers[k].x ]
              ELSE slide.layers[k] = slideRef.layers[k]

\* a resize move that changed both the width and x of the resized layer
\* next to a second layer
C23_Witness ==
    /\ ResizeMoveEmitted
    /\ ResizedNow.width # ResizedRead.width
    /\ ResizedNow.x # ResizedRead.x
    /\ Len(slide.layers) = 2

(***************************************************************************)
(* Further properties of the drag gesture (checked under Spec)             *)
(***************************************************************************)

\* the horizontal envelope of the layer has crossed bounds: its padded
\* content is wider than the surface
EnvelopeDegenerate(layer) == EnvelopeOf(layer).minX > EnvelopeOf(layer).maxX

\* C24: with constrainToSlide and a layer whose padded content is wider than
\* the slide (minimum legal x above maximum legal x), every drag
\* pointer-move emits one and the same x for the layer, the envelope's
\* minimum, whatever the pointer displacement; the range is only clamped
\* against, never divided by.
C24_DegenerateEnvelopeSingleX ==
    (DragMoveEmitted /\ slideRef.constrainToSlide) =>
        \A id \in DraggedIds :
            EnvelopeDegenerate(LayerOf(id)) =>
                LayerOf(id).x = EnvelopeOf(LayerOf(id)).minX

\* a drag move with a horizontal displacement of a layer wider than the
\* slide, emitted at the envelope's minimum
C24_Witness ==
    /\ DragMoveEmitted /\ slideRef.constrainToSlide
    /\ ev.clientX # interactionRef.startX
    /\ \E id \in DraggedIds :
          /\ EnvelopeDegenerate(LayerOf(id))
          /\ LayerOf(id).x = EnvelopeOf(LayerOf(id)).minX
          /\ LayerOf(id).x # interactionRef.initialPositions[id].x + EvRawDx

\* a gesture is active that is a resize or a drag of two or more layers
NoSnapGesture ==
    /\ interactionRef # NoInteraction
    /\ \/ interactionRef.operation = "resize"
       \/ Cardinality(DraggedIds) >= 2

\* the layer the last drag move read for the given id
ReadLayerOf(id) == slideRef.layers[FindIndex(slideRef.layers, id)]

\* every dragged layer is emitted at its start position plus the raw pointer
\* delta, containment applied afterwards
RawDeltaEmitted ==
    \A id \in DraggedIds :
        LayerOf(id) = DraggedLayer(ReadLayerOf(id),
                                   interactionRef.initialPositions[id],
                                   EvRawDx, EvRawDy, slideRef.constrainToSlide)

\* C25: snapping is evaluated only when exactly one layer is dragged: while
\* two or more layers are dragged, or during a resize, both snap indicators
\* stay lowered and every dragged layer's position before containment is
\* its start position plus the raw pointer delta.
C25_SnapOnlyForSingleDrag ==
    NoSnapGesture =>
        /\ ~showSnapX /\ ~showSnapY
        /\ DragMoveEmitted => RawDeltaEmitted

\* the emitted position of a dragged layer recomputed from the position
\* recorded at pointer-down and the pointer location of the move alone: the
\* positions of the layers the handler read are erased before the snap and
\* the containment are evaluated
PositionErased(layers) ==
    [k \in 1..Len(layers) |-> [layers[k] EXCEPT !.x = 0, !.y = 0]]

FromStartAndPointer(id) ==
    LET erased == PositionErased(slideRef.layers)
        snap == SnapOf(interactionRef.initialPositions, erased, EvRawDx, EvRawDy)
    IN  DraggedLayer(erased[FindIndex(erased, id)],
                     interactionRef.initialPositions[id],
                     snap.finalDx, snap.finalDy, slideRef.constrainToSlide)

\* C26: within one drag gesture the position emitted for each dragged layer
\* depends only on the position recorded for it at pointer-down and on the
\* pointer location of the move (layout and settings unchanged): it is the
\* same whatever positions earlier moves of the gesture have written.
C26_DragDependsOnStartAndPointer ==
    DragMoveEmitted =>
        \A id \in DraggedIds :
            /\ LayerOf(id).x = FromStartAndPointer(id).x
            /\ LayerOf(id).y = FromStartAndPointer(id).y

\* a drag move handled after an earlier move of the gesture had written a
\* different position, which the handler read
C26_Witness ==
    /\ DragMoveEmitted
    /\ \E id \in DraggedIds :
          /\ ReadLayerOf(id).x # interactionRef.initialPositions[id].x
          /\ ReadLayerOf(id).x # LayerOf(id).x
          /\ LayerOf(id).x # interactionRef.initialPositions[id].x

\* C29: after a pointer-down on an unselected layer has emitted the
\* selection update, the layer list emitted by the pointer-move that
\* follows has that layer as its only selected layer, also when the move is
\* handled before slideRef has been refreshed.
C29_SelectionSurvivesFirstMove ==
    [][ (ev.type = "down" /\ ev.emitted /\ ev'.type = "move" /\ ev'.emitted)
        => SelectedIdsOf(slide'.layers) = {interactionRef.layerId} ]_vars

(***************************************************************************)
(* Further properties of word wrap (checked under SpecWrap)                *)
(***************************************************************************)

IsWord(w) == w # << >>

\* the whitespace-separated words of a string, in order
WordsOf(str) == SelectSeq(SplitWhitespace(str), IsWord)

\* the words of a sequence of strings, read in order
WordsOfAll(strs) == ConcatAll([k \in 1..Len(strs) |-> WordsOf(strs[k])])

\* the paragraph at position k of the content and the lines produced for it
ParagraphsOf(content) == SplitNewline(content)
LinesBefore(k) ==
    LET ps == ParagraphsOf(wrapIn.content)
    IN  Len(ConcatAll([j \in 1..(k - 1) |->
              WrapParagraph(ps[j], WrapBudgetPx, wrapOut.size)]))
LinesOfParagraph(k) ==
    LET ps == ParagraphsOf(wrapIn.content)
        n == Len(WrapParagraph(ps[k], WrapBudgetPx, wrapOut.size))
    IN  SubSeq(wrapOut.lines, LinesBefore(k) + 1, LinesBefore(k) + n)

\* C27: word wrap never splits, drops, duplicates or reorders words: for
\* every paragraph the words of its produced lines, read in order, are
\* exactly the paragraph's whitespace-separated words, and a word wider
\* than the wrap budget occupies a line by itself.
C27_WrapKeepsWords ==
    wrapOut # NoLayout =>
        /\ \A k \in 1..Len(ParagraphsOf(wrapIn.content)) :
              WordsOfAll(LinesOfParagraph(k))
                  = WordsOf(ParagraphsOf(wrapIn.content)[k])
        /\ WordsOfAll(wrapOut.lines) = WordsOfAll(ParagraphsOf(wrapIn.content))
        /\ \A k \in 1..Len(wrapOut.lines) :
              \A j \in 1..Len(WordsOf(wrapOut.lines[k])) :
                  LineWidthPx(WordsOf(wrapOut.lines[k])[j]) > WrapBudgetPx
                      => Len(WordsOf(wrapOut.lines[k])) = 1

\* two paragraphs, the first a word wider than the budget, the second two
\* words that share a line
C27_Witness ==
    /\ wrapOut # NoLayout
    /\ Len(ParagraphsOf(wrapIn.content)) = 2
    /\ Len(wrapOut.lines) = 2
    /\ Len(WordsOf(wrapOut.lines[1])) = 1
    /\ LineWidthPx(wrapOut.lines[1]) > WrapBudgetPx
    /\ Len(WordsOf(wrapOut.lines[2])) = 2

(***************************************************************************)
(* SpecHistory: undo / redo checkpoints and the debounced commit           *)
(***************************************************************************)
\* Length the undo and redo stacks are cut to (50 in the source; the model
\* cuts sooner).
MAX_HISTORY == 3

\* const [slides, setSlides] = useState([]) and the history state, with
\* every export variable at rest
InitHistory ==
    /\ deck = << >>
    /\ exportSlides = << >>
    /\ exportPc = << >>
    /\ exportIdx = << >>
    /\ zip = << >>
    /\ imgStatus = << >>
    /\ serverOut = << >>
    /\ history = << >>
    /\ future = << >>
    /\ lastSavedStateRef = << >>
    /\ historyDebounceTimer = NoTimer
    /\ undone = NoUndo
    /\ dims = DimsFor("9:16")
    /\ PreviewAtRest
    /\ WrapAtRest
    /\ KeysAtRest
    /\ RenderAtRest
    /\ ServerAtRest

HistoryFrame ==
    UNCHANGED << exportSlides, exportPc, exportIdx, zip, imgStatus, serverOut,
                 previewVars, wrapVars, keyVars, renderVars, serverVars >>

\* seq.slice(-MAX_HISTORY) and seq.slice(0, MAX_HISTORY)
SliceLast(seq) ==
    IF Len(seq) <= MAX_HISTORY THEN seq
    ELSE SubSeq(seq, Len(seq) - MAX_HISTORY + 1, Len(seq))
SliceFirst(seq) ==
    IF Len(seq) <= MAX_HISTORY THEN seq ELSE SubSeq(seq, 1, MAX_HISTORY)

\* commitToHistory(stateToSave): nothing when the state equals the last
\* saved one; else the last saved state is pushed on the undo stack, the
\* redo stack is emptied and the state becomes the last saved one.
CommitToHistory(stateToSave) ==
    IF stateToSave = lastSavedStateRef
    THEN UNCHANGED << history, future, lastSavedStateRef >>
    ELSE /\ history' = SliceLast(Append(history, lastSavedStateRef))
         /\ future' = << >>
         /\ lastSavedStateRef' = stateToSave

\* handleImageUpload with one image file: commitToHistory(finalSlides);
\* setSlides(finalSlides)
HandleImageUpload ==
    /\ Len(deck) < 1
    /\ LET finalSlides == Append(deck, [image |-> "ok", rev |-> 0])
       IN  /\ CommitToHistory(finalSlides)
           /\ deck' = finalSlides
    /\ undone' = NoUndo
    /\ UNCHANGED historyDebounceTimer
    /\ HistoryFrame

\* updateCurrentSlide(updates): the slide is replaced in a copy of the deck
\* and debouncedCommitToHistory(next) restarts the 500 ms timer
UpdateCurrentSlide(rev) ==
    /\ LET next == IF deck # << >> THEN [deck EXCEPT ![1].rev = rev] ELSE deck
       IN  /\ deck' = next
           /\ historyDebounceTimer' = [pending |-> TRUE, stateToSave |-> next]
    /\ undone' = NoUndo
    /\ UNCHANGED << history, future, lastSavedStateRef >>
    /\ HistoryFrame

\* the debounce timer fires: commitToHistory(stateToSave);
\* historyDebounceTimer.current = null
DebounceFires ==
    /\ historyDebounceTimer.pending
    /\ CommitToHistory(historyDebounceTimer.stateToSave)
    /\ historyDebounceTimer' = NoTimer
    /\ undone' = IF undone.phase = "undone" THEN undone ELSE NoUndo
    /\ UNCHANGED deck
    /\ HistoryFrame

\* clearWorkspace: commitToHistory([]); setSlides([])
ClearWorkspace ==
    /\ deck # << >>
    /\ CommitToHistory(<< >>)
    /\ deck' = << >>
    /\ undone' = NoUndo
    /\ UNCHANGED historyDebounceTimer
    /\ HistoryFrame

\* undo: a no-op on an empty undo stack; the pending timer is left running
Undo ==
    /\ IF history = << >>
       THEN UNCHANGED << deck, history, future, lastSavedStateRef, undone >>
       ELSE LET previous == history[Len(history)]
            IN  /\ future' = SliceFirst(<< deck >> \o future)
                /\ history' = SubSeq(history, 1, Len(history) - 1)
                /\ deck' = previous
                /\ lastSavedStateRef' = previous
                /\ undone' = [phase |-> "undone", slides |-> deck,
                              future |-> future]
    /\ UNCHANGED historyDebounceTimer
    /\ HistoryFrame

\* redo: a no-op on an empty redo stack
Redo ==
    /\ IF future = << >>
       THEN UNCHANGED << deck, history, future, lastSavedStateRef >>
       ELSE LET next == future[1]
            IN  /\ history' = SliceLast(Append(history, deck))
                /\ future' = Tail(future)
                /\ deck' = next
                /\ lastSavedStateRef' = next
    /\ undone' = IF undone.phase = "undone"
                 THEN [undone EXCEPT !.phase = "redone"]
                 ELSE NoUndo
    /\ UNCHANGED historyDebounceTimer
    /\ HistoryFrame

NextHistory ==
    \/ HandleImageUpload
    \/ \E rev \in 0..MaxEdits : UpdateCurrentSlide(rev)
    \/ DebounceFires
    \/ ClearWorkspace
    \/ Undo
    \/ Redo

SpecHistory == InitHistory /\ [][NextHistory]_vars

\* C28: an undo immediately followed by a redo returns the deck to the
\* state it had before the undo and leaves the redo stack as it was, also
\* when the debounced commit of an earlier edit fires between the two.
C28_UndoThenRedoRestores ==
    undone.phase = "redone" =>
        /\ deck = undone.slides
        /\ future = undone.future

====
